---- MODULE Spec2Model ----
(***************************************************************************)
(* The VCP detection pipeline of src/vcp_ultimate_algorithm.py as a state  *)
(* machine: one detect_vcp call walks the stages ValidateFrame, TrendGate, *)
(* ExtractSwings, AssembleContractions, ValidatePattern, ComputeMetrics,   *)
(* ScoreConfidence, CheckBreakout and returns a VCPSignal.                 *)
(*                                                                         *)
(* Numbers.  Prices are integers in cents and volumes integers in units of *)
(* 100,000 shares (min_price = 10.0 is 1000, min_volume = 500000 is 5).  A *)
(* ratio                                                                   *)
(* the code computes in floating point (percent_drop, a moving average, a  *)
(* mean volume) is kept as an exact pair <<numerator, denominator>> and    *)
(* compared by cross-multiplication; a threshold such as 0.10 or 0.35 is   *)
(* kept in percent, trend_strength in tenths.  NaN (a rolling mean over    *)
(* too few bars) is the value NaN, for which every comparison is false.    *)
(***************************************************************************)
EXTENDS Integers, Sequences, FiniteSets, TLC

VARIABLES
    self,          \* the VCPDetector's configuration fields
    df,            \* the frame object handed to detect_vcp (None, or columns)
    df0,           \* the frame as it was when the call began
    symbol,        \* the symbol argument of the call
    pc,            \* the stage the call is at
    signal,        \* the VCPSignal being built
    swing_highs,   \* local of detect_vcp
    swing_lows,    \* local of detect_vcp
    contractions,  \* local of detect_vcp
    raised,        \* TRUE when an exception left detect_vcp
    internal_error,\* the text of an exception caught by detect_vcp's handler
    returned,      \* the Signals detect_vcp returned for the current call
    memo,          \* an earlier call the caller kept: its frame, symbol and Signal
    scan,          \* the locals of one scan_for_vcp call
    patterns,      \* the rows of the patterns table
    writers,       \* the processes that upsert into the patterns table
    batch,         \* the locals of one run of the batch worker's main
    walk           \* a client's walk through the pages of /patterns/all

vars == <<self, df, df0, symbol, pc, signal, swing_highs, swing_lows,
          contractions, raised, internal_error, returned, memo,
          scan, patterns, writers, batch, walk>>

(***************************************************************************)
(* Values.  A field that is None in Python is the empty tuple and a set    *)
(* field is a one-element tuple.  A floating-point value is the pair       *)
(* <<numerator, denominator>> with a positive denominator; NaN is <<0, 0>>.*)
(* A division by a numpy zero gives <<numerator, 0>>: an infinity, or NaN.  *)
(***************************************************************************)
NoValue == <<>>
Some(x) == <<x>>
NaN == <<0, 0>>
IsNaN(a) == a[1] = 0 /\ a[2] = 0
Num(x) == <<x, 1>>
\* comparisons of floats: false as soon as one side is NaN
Gt(a, b) == ~IsNaN(a) /\ ~IsNaN(b) /\ a[1] * b[2] > b[1] * a[2]
Ge(a, b) == ~IsNaN(a) /\ ~IsNaN(b) /\ a[1] * b[2] >= b[1] * a[2]
Lt(a, b) == Gt(b, a)
Le(a, b) == Ge(b, a)

(***************************************************************************)
(* Bounds of the model.                                                    *)
(***************************************************************************)
\* the most swing cycles (a peak bar and a trough bar) a frame's base holds
MaxCycles == 4

(***************************************************************************)
(* Program constants.                                                      *)
(***************************************************************************)
MinBars == 60            \* _validate_data: len(df) < 60
VolumeLookback == 50     \* df['Volume'].iloc[-50:]
SwingWindow == 5         \* _find_swing_points(window=5)
RecentPeriod == 60       \* min(60, len(df) // 2)

(***************************************************************************)
(* The frames the caller hands in.  A frame is None, or a table of daily   *)
(* bars.  What is enumerated is its shape: a rising run-up of P bars, then *)
(* a base of T bars that holds up to MaxCycles swing cycles counted back   *)
(* from the last bar, each a peak bar followed three bars later by a       *)
(* trough bar, the whole base tilted by `drift` cents a bar.  Between the  *)
(* spikes highs and lows rise by a cent a bar, so that only the spikes are *)
(* local extrema.                                                          *)
(***************************************************************************)
OHLCV == {"Open", "High", "Low", "Close", "Volume"}

CycleTypes == {"deep", "mid", "tight"}
DriftCycleTypes == {"peak", "dip"}
\* the cycles of the step frame: a ramp, a shelf whose peak has no trough, a
\* quiet stretch with neither, and a retest whose trough is at the shelf's peak
StepCycles == <<"ramp", "shelf", "quiet", "retest">>

\* the high of a cycle's peak bar, the low of its trough bar (0: no trough),
\* and the volume traded through the cycle
PeakOf(c) ==
    CASE c = "deep" -> 12000 [] c = "mid" -> 11000 [] c = "tight" -> 10500
      [] c = "peak" -> 10300 [] c = "dip" -> 10300
      [] c = "ramp" -> 10600 [] c = "shelf" -> 10500 [] c = "quiet" -> 0
      [] c = "retest" -> 11000 [] c = "dry" -> 11000
TroughOf(c) ==
    CASE c = "deep" -> 7200 [] c = "mid" -> 9900 [] c = "tight" -> 9975
      [] c = "peak" -> 0 [] c = "dip" -> 9800
      [] c = "ramp" -> 9900 [] c = "shelf" -> 0 [] c = "quiet" -> 0
      [] c = "retest" -> 10500 [] c = "dry" -> 9900
VolOf(c) ==
    CASE c = "deep" -> 20 [] c = "mid" -> 15 [] c = "tight" -> 9
      [] c = "peak" -> 10 [] c = "dip" -> 12
      [] c \in {"ramp", "shelf", "quiet", "retest"} -> 10
      [] c = "dry" -> 0

Shapes(S, k) == UNION {[1..m -> S] : m \in 0..k}

\* kind: None (no frame), nocol (no Volume column), cheap (a price under
\* min_price), thin (a volume under min_volume), penny (cheap and thin),
\* cheapnocol (cheap and no Volume column), floor (the last close at
\* min_price and every volume at min_volume), gentle and slack (a slower run-up), fall (a
\* run-up that falls into the base), breakout (a last bar that closes high on heavy volume),
\* lift (a last bar that closes high on ordinary volume),
\* level (a base whose bars between the spikes all have the same high and
\* the same low), kink (the bar ten bars before the last closes a dollar
\* higher), step (the closes step up six dollars 13 bars before the last
\* bar), halt (no volume is traded through the first cycle, a "dry" one),
\* bars (none of these; with 139 leading bars the frame is one bar short of
\* the 200 that MA_200 needs)
FrameShapes ==
    [kind : {"None"}, P : {0}, T : {0}, drift : {0}, cyc : {<<>>}]
    \cup [kind : {"nocol", "cheap", "thin", "penny", "cheapnocol", "floor", "bars"},
          P : {0}, T : {60}, drift : {0}, cyc : {<<"mid", "tight">>}]
    \cup [kind : {"bars", "nocol", "penny"}, P : {0}, T : {59}, drift : {0},
          cyc : {<<"mid", "tight">>}]
    \cup [kind : {"fall", "breakout", "lift", "gentle", "slack"}, P : {140}, T : {60}, drift : {0},
          cyc : {<<"mid", "tight", "tight">>}]
    \cup [kind : {"bars"}, P : {140}, T : {60}, drift : {0},
          cyc : Shapes(CycleTypes, MaxCycles)]
    \cup [kind : {"bars"}, P : {139}, T : {60}, drift : {0},
          cyc : {<<"mid", "tight", "tight">>}]
    \cup [kind : {"bars"}, P : {0}, T : {60}, drift : {40},
          cyc : Shapes(DriftCycleTypes, MaxCycles)]
    \cup [kind : {"level"}, P : {0}, T : {60}, drift : {0},
          cyc : {<<"mid", "tight">>}]
    \cup [kind : {"kink"}, P : {0}, T : {60}, drift : {0},
          cyc : {<<"mid", "tight", "tight">>}]
    \cup [kind : {"step"}, P : {0}, T : {60}, drift : {0}, cyc : {StepCycles}]
    \cup [kind : {"halt"}, P : {0}, T : {60}, drift : {0},
          cyc : {<<"dry", "tight", "tight">>}]

\* the value of column c at bar i of the frame of shape fp
BarValue(fp, c, i) ==
    LET n == fp.P + fp.T
        r == n - 1 - i                      \* bars before the last bar
        t == i - fp.P                       \* bars into the base
        K == Len(fp.cyc)
        e == IF r >= 4 THEN (r - 4) \div 6 ELSE K
        inCycle == i >= fp.P /\ e < K
        cy == IF inCycle THEN fp.cyc[K - e] ELSE "peak"
        tilt == fp.drift * t
        jump == fp.kind \in {"breakout", "lift"} /\ r = 0
        close == IF i < fp.P
                 THEN (CASE fp.kind = "fall" -> 10000 + 20 * (fp.P - i)
                         [] fp.kind = "gentle" -> 10000 - 15 * (fp.P - i)
                         [] fp.kind = "slack" -> 10000 - 12 * (fp.P - i)
                         [] OTHER -> 10000 - 20 * (fp.P - i))
                 ELSE IF jump THEN 11500
                 ELSE IF fp.kind = "level" THEN 10000
                 ELSE IF fp.kind = "kink" /\ r = 10 THEN 10100 + t
                 ELSE IF fp.kind = "step" /\ r <= 13 THEN 10600 + t
                 ELSE 10000 + t + tilt
        isPeak == inCycle /\ r = 9 + 6 * e /\ PeakOf(cy) > 0
        isTrough == inCycle /\ r = 6 + 6 * e /\ TroughOf(cy) > 0
        price == CASE c = "High" -> IF isPeak THEN PeakOf(cy) + tilt ELSE close + 10
                   [] c = "Low" -> IF isTrough THEN TroughOf(cy) + tilt ELSE close - 10
                   [] OTHER -> close
        volume == IF jump /\ fp.kind = "breakout" THEN 40 ELSE IF inCycle THEN VolOf(cy) ELSE 10
    IN  IF c = "Volume"
        THEN (CASE fp.kind \in {"thin", "penny"} -> volume \div 10
                [] fp.kind = "floor" -> 5
                [] OTHER -> volume)
        ELSE (CASE fp.kind \in {"cheap", "penny", "cheapnocol"} -> price \div 20
                [] fp.kind = "floor" -> price - (9000 + fp.T - 1)
                [] OTHER -> price)

\* the frame object the fetcher hands over: its length and its columns
MakeFrame(fp) ==
    LET n == fp.P + fp.T
        cols == CASE fp.kind = "None" -> {}
                  [] fp.kind \in {"nocol", "cheapnocol"} -> OHLCV \ {"Volume"}
                  [] OTHER -> OHLCV
    IN  [none |-> fp.kind = "None",
         n |-> n,
         col |-> [c \in cols |-> [i \in 0..(n - 1) |-> BarValue(fp, c, i)]]]

FrameOf == [fp \in FrameShapes |-> MakeFrame(fp)]

(***************************************************************************)
(* Series helpers: pandas' iloc slices, rolling means, max and min.        *)
(***************************************************************************)
\* sum, max and min of s[lo .. hi], by halves
RECURSIVE SumRange(_, _, _)
SumRange(s, lo, hi) ==
    IF lo > hi THEN 0
    ELSE IF lo = hi THEN s[lo]
    ELSE LET mid == (lo + hi) \div 2
         IN  SumRange(s, lo, mid) + SumRange(s, mid + 1, hi)

RECURSIVE MaxRange(_, _, _)
MaxRange(s, lo, hi) ==
    IF lo >= hi THEN s[lo]
    ELSE LET mid == (lo + hi) \div 2
             a == MaxRange(s, lo, mid)
             b == MaxRange(s, mid + 1, hi)
         IN  IF a >= b THEN a ELSE b

RECURSIVE MinRange(_, _, _)
MinRange(s, lo, hi) ==
    IF lo >= hi THEN s[lo]
    ELSE LET mid == (lo + hi) \div 2
             a == MinRange(s, lo, mid)
             b == MinRange(s, mid + 1, hi)
         IN  IF a <= b THEN a ELSE b

\* the running sums base + s[lo], base + s[lo] + s[lo+1], ... up to s[hi]
RECURSIVE RunningSums(_, _, _, _)
RunningSums(s, lo, hi, base) ==
    IF lo > hi THEN <<>>
    ELSE IF lo = hi THEN <<base + s[lo]>>
    ELSE LET mid == (lo + hi) \div 2
             left == RunningSums(s, lo, mid, base)
         IN  left \o RunningSums(s, mid + 1, hi, left[Len(left)])

\* series.iloc[-k:].mean() of a series of n values
TailMean(s, n, k) ==
    LET lo == IF k >= n THEN 0 ELSE n - k IN <<SumRange(s, lo, n - 1), n - lo>>

\* a rolling mean that averages the values available so far while fewer than
\* k exist (rolling(k, min_periods=1))
RollingFromFirstBar(s, n, k) ==
    LET sums == RunningSums(s, 0, n - 1, 0)
    IN  [i \in 0..(n - 1) |->
            IF i + 1 < k THEN <<sums[i + 1], i + 1>>
            ELSE <<sums[i + 1] - (IF i >= k THEN sums[i - k + 1] ELSE 0), k>>]

\* series.rolling(k).mean(): NaN until k values are available
Rolling(s, n, k) ==
    LET sums == RunningSums(s, 0, n - 1, 0)
    IN  [i \in 0..(n - 1) |->
            IF i + 1 < k THEN NaN
            ELSE <<sums[i + 1] - (IF i >= k THEN sums[i - k + 1] ELSE 0), k>>]

\* series.rolling(k).mean().iloc[-1]
RollingLast(s, n, k) == IF n < k THEN NaN ELSE <<SumRange(s, n - k, n - 1), k>>

\* the list lo, lo+1, ..., hi  (range(lo, hi+1))
Range(lo, hi) == [j \in 1..(hi - lo + 1) |-> lo + j - 1]

\* list.sort(key=...): a stable insertion sort on an integer key
RECURSIVE InsertByKey(_, _, _)
InsertByKey(sorted, x, k) ==
    IF sorted = <<>> THEN <<x>>
    ELSE IF sorted[Len(sorted)][k] <= x[k]
         THEN Append(sorted, x)
         ELSE Append(InsertByKey(SubSeq(sorted, 1, Len(sorted) - 1), x, k),
                     sorted[Len(sorted)])
RECURSIVE SortByKey(_, _)
SortByKey(xs, k) ==
    IF xs = <<>> THEN <<>>
    ELSE InsertByKey(SortByKey(SubSeq(xs, 1, Len(xs) - 1), k), xs[Len(xs)], k)

(***************************************************************************)
(* VCPSignal and notes.  A note is its text with the values formatted in.  *)
(***************************************************************************)
Note(text, args) == [text |-> text, args |-> args, detail |-> ""]

VCPSignal(sym) ==
    [symbol |-> sym, detected |-> FALSE, pivot_price |-> NoValue,
     contractions |-> NoValue, confidence_score |-> Num(0),
     trend_strength |-> Num(0), volume_dry_up |-> FALSE,
     final_contraction_tightness |-> NoValue, breakout_detected |-> FALSE,
     signal_date |-> NoValue, notes |-> <<>>]

\* an append that lands on a copy of the list and is lost
AddNoteLost(sig, text, args) == sig

AddNote(sig, text, args) == [sig EXCEPT !.notes = Append(@, Note(text, args))]

(***************************************************************************)
(* VCPDetector._validate_data                                              *)
(***************************************************************************)
\* line 153, with len(df) < 50 in its place
TooFewBarsFifty(frame) == frame.none \/ frame.n < 50

\* line 153: df is None or len(df) < 60
TooFewBars(frame) == frame.none \/ frame.n < MinBars

validate_data(cfg, frame, sig) ==
    IF TooFewBars(frame)
    THEN [ok |-> FALSE,
          signal |-> AddNote(sig, "Insufficient data points (need 60+ days)", <<>>)]
    ELSE IF ~(OHLCV \subseteq DOMAIN frame.col)
    THEN [ok |-> FALSE, signal |-> AddNote(sig, "Missing required OHLCV columns", <<>>)]
    ELSE LET current_price == frame.col["Close"][frame.n - 1]
             avg_volume == TailMean(frame.col["Volume"], frame.n, VolumeLookback)
         IN  IF current_price < cfg.min_price
             THEN [ok |-> FALSE,
                   signal |-> AddNote(sig, "Price below minimum",
                                      <<current_price, cfg.min_price>>)]
             ELSE IF Lt(avg_volume, Num(cfg.min_volume))
             THEN [ok |-> FALSE,
                   signal |-> AddNote(sig, "Volume below minimum",
                                      <<avg_volume[1], avg_volume[2], cfg.min_volume>>)]
             ELSE [ok |-> TRUE, signal |-> sig]

(***************************************************************************)
(* VCPDetector._check_trend_template                                       *)
(***************************************************************************)
\* lines 190-192: the three moving-average columns written into the frame
WithMovingAverages(frame) ==
    LET close == frame.col["Close"]
        added == [c \in {"MA_50", "MA_150", "MA_200"} |->
                    Rolling(close, frame.n,
                            CASE c = "MA_50" -> 50 [] c = "MA_150" -> 150
                              [] OTHER -> 200)]
    IN  [frame EXCEPT !.col = [c \in DOMAIN frame.col \cup DOMAIN added |->
                                  IF c \in DOMAIN added THEN added[c] ELSE frame.col[c]]]

\* lines 194-239: the eight criteria, evaluated on the frame with its new columns
TrendCriteria(frame) ==
    LET n == frame.n
        price == frame.col["Close"][n - 1]
        ma50 == frame.col["MA_50"][n - 1]
        ma150 == frame.col["MA_150"][n - 1]
        ma200 == frame.col["MA_200"][n - 1]
        ma200_20d_ago == IF n >= 20 THEN frame.col["MA_200"][n - 20] ELSE ma200
        lo52 == IF n >= 252 THEN n - 252 ELSE 0
        high_52w == MaxRange(frame.col["High"], lo52, n - 1)
        low_52w == MinRange(frame.col["Low"], lo52, n - 1)
        price_6m_ago == frame.col["Close"][n - 126]
    IN  << Gt(Num(price), ma150) /\ Gt(Num(price), ma200),
           Gt(ma150, ma200),
           Gt(ma200, ma200_20d_ago),
           Gt(ma50, ma150) /\ Gt(ma50, ma200),
           Gt(Num(price), ma50),
           IF low_52w > 0 THEN (price - low_52w) * 100 >= 30 * low_52w ELSE FALSE,
           IF high_52w > 0 THEN (high_52w - price) * 100 <= 25 * high_52w ELSE FALSE,
           IF n >= 126
           THEN Gt(<<price - price_6m_ago, price_6m_ago>>, <<10, 100>>)
           ELSE TRUE >>

TrendRequired == 6       \* passed_criteria >= 6

check_trend_template(frame, sig) ==
    LET after == WithMovingAverages(frame)
        criteria == TrendCriteria(after)
        passed_criteria == Cardinality({i \in 1..Len(criteria) : criteria[i]})
        sig1 == [sig EXCEPT !.trend_strength = <<passed_criteria, Len(criteria)>>]
    IN  [frame |-> after,
         ok |-> passed_criteria >= TrendRequired,
         signal |-> IF passed_criteria >= TrendRequired THEN sig1
                    ELSE AddNote(sig1, "Trend Template: k/8 criteria passed",
                                 <<passed_criteria>>)]

(***************************************************************************)
(* VCPDetector._find_swing_points                                          *)
(***************************************************************************)
SwingPoint(series, i) == [date |-> i, price |-> series[i], index |-> i]

\* lines 265 and 273: highs[i] == max(highs[i-window : i+window+1]), that is,
\* no bar of the window is higher; and the same for the lows
\* a test that looks only at the bars up to bar i
IsWindowMaxBefore(s, i, window) == \A j \in (i - window)..i : s[j] <= s[i]

IsWindowMax(s, i, window) == \A j \in (i - window)..(i + window) : s[j] <= s[i]
IsWindowMin(s, i, window) == \A j \in (i - window)..(i + window) : s[j] >= s[i]

find_swing_points(frame, window) ==
    LET highs == frame.col["High"]
        lows == frame.col["Low"]
        indices == Range(window, frame.n - window - 1)
        hi == SelectSeq(indices, LAMBDA i : IsWindowMax(highs, i, window))
        lo == SelectSeq(indices, LAMBDA i : IsWindowMin(lows, i, window))
    IN  [swing_highs |-> [k \in 1..Len(hi) |-> SwingPoint(highs, hi[k])],
         swing_lows |-> [k \in 1..Len(lo) |-> SwingPoint(lows, lo[k])]]

(***************************************************************************)
(* VCPDetector._identify_contractions                                      *)
(***************************************************************************)
\* a min that returns the last point of the least price
MinByPriceLast(points) ==
    points[CHOOSE i \in 1..Len(points) :
              /\ \A j \in 1..Len(points) : points[j].price >= points[i].price
              /\ \A j \in (i + 1)..Len(points) : points[j].price > points[i].price]

\* min(points, key=price): the first point of the least price
RECURSIVE MinByPrice(_)
MinByPrice(points) ==
    IF Len(points) = 1 THEN points[1]
    ELSE LET m == MinByPrice(SubSeq(points, 1, Len(points) - 1))
             x == points[Len(points)]
         IN  IF x.price < m.price THEN x ELSE m

\* lines 311-328: the Contraction built from a high and its low
Contraction(frame, high_point, low_point) ==
    [start_date |-> high_point.date,
     end_date |-> low_point.date,
     high_price |-> high_point.price,
     low_price |-> low_point.price,
     percent_drop |-> <<high_point.price - low_point.price, high_point.price>>,
     avg_volume |-> <<SumRange(frame.col["Volume"], high_point.index, low_point.index),
                      low_point.index - high_point.index + 1>>,
     duration_days |-> low_point.date - high_point.date]

\* lines 302-330: one pass of the matching loop over recent_highs[0 .. len-2]
RECURSIVE MatchHighs(_, _, _, _)
MatchHighs(frame, recent_highs, recent_lows, i) ==
    IF i > Len(recent_highs) - 1 THEN <<>>
    ELSE LET high_point == recent_highs[i]
             corresponding_lows ==
                 SelectSeq(recent_lows, LAMBDA l : l.date > high_point.date)
             rest == MatchHighs(frame, recent_highs, recent_lows, i + 1)
         IN  IF corresponding_lows # <<>>
             THEN <<Contraction(frame, high_point, MinByPrice(corresponding_lows))>>
                  \o rest
             ELSE rest

identify_contractions(frame, highs, lows) ==
    LET half == frame.n \div 2
        recent_period == IF RecentPeriod <= half THEN RecentPeriod ELSE half
        base_start == frame.n - recent_period
        recent_highs == SelectSeq(highs, LAMBDA h : h.index >= base_start)
        recent_lows == SelectSeq(lows, LAMBDA l : l.index >= base_start)
    IN  IF Len(recent_highs) < 2 \/ Len(recent_lows) < 2 THEN <<>>
        ELSE SortByKey(MatchHighs(frame, SortByKey(recent_highs, "date"),
                                  SortByKey(recent_lows, "date"), 1),
                       "start_date")

(***************************************************************************)
(* VCPDetector._validate_vcp_pattern                                       *)
(***************************************************************************)
\* contractions[-k:]  (Python: with k = 0 the slice [-0:] is the whole list)
KeepRecent(cs, k) ==
    IF k = 0 \/ k >= Len(cs) THEN cs ELSE SubSeq(cs, Len(cs) - k + 1, Len(cs))

\* lines 346-349
DecreasingCount(cs) ==
    Cardinality({i \in 2..Len(cs) : Le(cs[i].percent_drop, cs[i - 1].percent_drop)})

\* lines 362-364: max(all_highs), min(all_lows)
MaxHigh(cs) == MaxRange([i \in 1..Len(cs) |-> cs[i].high_price], 1, Len(cs))
MinLow(cs) == MinRange([i \in 1..Len(cs) |-> cs[i].low_price], 1, Len(cs))
BaseDepth(cs) == <<MaxHigh(cs) - MinLow(cs), MaxHigh(cs)>>

RECURSIVE Gcd(_, _)
Gcd(a, b) == IF b = 0 THEN a ELSE Gcd(b, a % b)
Abs(x) == IF x < 0 THEN -x ELSE x
Reduce(a) == LET g == Gcd(Abs(a[1]), a[2]) IN IF g = 0 THEN a ELSE <<a[1] \div g, a[2] \div g>>
Plus(a, b) == Reduce(<<a[1] * b[2] + b[1] * a[2], a[2] * b[2]>>)

\* the sign of np.polyfit(range(m), volumes, 1)[0]: that of
\* sum((2 i - (m - 1)) * volumes[i]) over i = 0 .. m-1, in exact arithmetic
RECURSIVE SlopeSum(_, _)
SlopeSum(volumes, i) ==
    IF i > Len(volumes) THEN Num(0)
    ELSE LET w == 2 * (i - 1) - (Len(volumes) - 1)
             v == Reduce(volumes[i])
         IN  Plus(<<w * v[1], v[2]>>, SlopeSum(volumes, i + 1))

\* a volume test that is made from two contractions on
VolumeTrendUpFromTwo(cs) ==
    Len(cs) >= 2 /\ Gt(SlopeSum([i \in 1..Len(cs) |-> cs[i].avg_volume], 1), Num(0))

VolumeTrendUp(cs) ==
    Len(cs) >= 3 /\ Gt(SlopeSum([i \in 1..Len(cs) |-> cs[i].avg_volume], 1), Num(0))

\* the percentages of the configuration as floats
Pct(p) == <<p, 100>>

\* a final-tightness test that never rejects
FinalNeverTooWide(cfg, kept) == FALSE

\* a final-tightness test that also rejects a drop equal to the maximum
FinalTooWideInclusive(cfg, kept) ==
    Ge(kept[Len(kept)].percent_drop, Pct(cfg.final_contraction_max))

\* line 357: final_contraction.percent_drop > self.final_contraction_max
FinalTooWide(cfg, kept) ==
    Gt(kept[Len(kept)].percent_drop, Pct(cfg.final_contraction_max))

\* lines 345-378, after the count gate: the checks on the kept contractions.
\* error is the text of the exception the body raises, "" when it raises none.
PatternChecks(cfg, kept, sig) ==
    IF Len(kept) - 1 = 0
    THEN [ok |-> FALSE, signal |-> sig, error |-> "division by zero"]
    ELSE IF Lt(<<DecreasingCount(kept) * (IF Len(kept) - 1 < 0 THEN -1 ELSE 1),
                 Abs(Len(kept) - 1)>>, <<6, 10>>)
    THEN [ok |-> FALSE, error |-> "",
          signal |-> AddNote(sig, "Contractions not sufficiently decreasing", <<>>)]
    ELSE IF FinalTooWide(cfg, kept)
    THEN [ok |-> FALSE, error |-> "",
          signal |-> AddNote(sig, "Final contraction too wide",
                             kept[Len(kept)].percent_drop)]
    ELSE IF Gt(BaseDepth(kept), Pct(cfg.max_base_depth))
    THEN [ok |-> FALSE, error |-> "",
          signal |-> AddNote(sig, "Base too deep", BaseDepth(kept))]
    ELSE [ok |-> TRUE, error |-> "",
          signal |-> IF VolumeTrendUp(kept)
                     THEN AddNote(sig, "Volume not decreasing through pattern", <<>>)
                     ELSE sig]

validate_vcp_pattern(cfg, cs, sig) ==
    IF Len(cs) < cfg.min_contractions
    THEN [ok |-> FALSE, signal |-> sig, error |-> ""]
    ELSE PatternChecks(cfg,
                       IF Len(cs) > cfg.max_contractions
                       THEN KeepRecent(cs, cfg.max_contractions) ELSE cs,
                       sig)

(***************************************************************************)
(* Pivot, trend strength, volume dry-up, breakout, confidence              *)
(***************************************************************************)
calculate_pivot_price(frame, cs) ==
    IF cs = <<>> THEN <<frame.col["Close"][frame.n - 1] * 105, 100>>
    ELSE <<MaxHigh(cs) * 101, 100>>

\* the score in tenths: 0.3, 0.3, 0.2 and 0.2
TrendScore(frame) ==
    LET n == frame.n
        close == frame.col["Close"]
        volume == frame.col["Volume"]
        price == close[n - 1]
        ma20 == RollingLast(close, n, 20)
        ma50 == RollingLast(close, n, 50)
        price_10d_ago == close[n - 10]
        recent_volume == <<SumRange(volume, n - 10, n - 1), 10>>
        older_volume == <<SumRange(volume, n - 30, n - 11), 20>>
    IN  (IF Gt(Num(price), ma20) THEN 3 ELSE 0)
        + (IF Gt(Num(price), ma50) THEN 3 ELSE 0)
        + (IF price > price_10d_ago THEN 2 ELSE 0)
        + (IF Gt(recent_volume, older_volume) THEN 2 ELSE 0)

\* a trend strength reported in percent instead of as a fraction
calculate_trend_strength_percent(frame) ==
    IF frame.n < 50 THEN <<50, 1>> ELSE <<TrendScore(frame) * 10, 1>>

calculate_trend_strength(frame) ==
    IF frame.n < 50 THEN <<5, 10>>
    ELSE LET score == TrendScore(frame)
         IN  <<IF score > 10 THEN 10 ELSE score, 10>>

check_volume_dry_up(cs) ==
    IF Len(cs) < 2 THEN FALSE
    ELSE LET recent_volume == Reduce(cs[Len(cs)].avg_volume)
             previous_volume == Reduce(cs[Len(cs) - 1].avg_volume)
             \* (previous - recent) / previous
             volume_decrease ==
                 <<previous_volume[1] * recent_volume[2]
                      - recent_volume[1] * previous_volume[2],
                   previous_volume[1] * recent_volume[2]>>
         IN  Gt(volume_decrease, <<2, 10>>)

\* a breakout test that looks at the price alone
check_breakout_price_only(cfg, frame, pivot_price) ==
    Gt(Num(frame.col["Close"][frame.n - 1]), pivot_price)

check_breakout(cfg, frame, pivot_price) ==
    LET n == frame.n
        current_price == frame.col["Close"][n - 1]
        current_volume == frame.col["Volume"][n - 1]
        avg_volume == TailMean(frame.col["Volume"], n, VolumeLookback)
        price_breakout == Gt(Num(current_price), pivot_price)
        volume_surge == Gt(Num(current_volume),
                           <<avg_volume[1] * cfg.breakout_volume_multiplier,
                             avg_volume[2] * 10>>)
    IN  price_breakout /\ volume_surge

\* lines 485-491: the points for the final contraction's tightness
TightnessPoints(tightness) ==
    IF tightness = NoValue \/ tightness[1][1] = 0 THEN 0     \* None and 0.0 are falsy
    ELSE IF Le(tightness[1], <<5, 100>>) THEN 15
    ELSE IF Le(tightness[1], <<8, 100>>) THEN 10
    ELSE IF Le(tightness[1], <<10, 100>>) THEN 5
    ELSE 0

\* lines 465-491: the score before it is clamped
RawScore(sig, num_contractions, volume_dry_up, volatility_compressed) ==
    LET points ==
            (IF 3 <= num_contractions /\ num_contractions <= 4 THEN 20
             ELSE IF 2 <= num_contractions /\ num_contractions <= 5 THEN 10 ELSE 0)
            + (IF volume_dry_up THEN 20 ELSE 0)
            + (IF volatility_compressed THEN 15 ELSE 0)
            + TightnessPoints(sig.final_contraction_tightness)
    IN  <<sig.trend_strength[1] * 30 + points * sig.trend_strength[2],
          sig.trend_strength[2]>>

\* line 494: min(100, max(0, score))
Clamp(score) ==
    LET low == IF Gt(score, Num(0)) THEN score ELSE Num(0)
    IN  IF Lt(low, Num(100)) THEN low ELSE Num(100)

calculate_confidence_score(sig, num_contractions, volume_dry_up, volatility_compressed) ==
    Clamp(RawScore(sig, num_contractions, volume_dry_up, volatility_compressed))

(***************************************************************************)
(* The detector's configurations (VCPDetector.__init__) and the symbols.   *)
(***************************************************************************)
\* the defaults of lines 54-61, with the trend template on or bypassed, and
\* with fewer contractions required or allowed.  trend_template_required is
\* the threshold the caller asks for: __init__ has no parameter of that name
\* and stores no such field, so it is an attribute the caller puts on the
\* detector, one that no line of the class reads.
Configs ==
    [min_price : {1000}, min_volume : {5},
     min_contractions : {2}, max_contractions : {6},
     max_base_depth : {35}, final_contraction_max : {10},
     breakout_volume_multiplier : {15}, check_trend_template : BOOLEAN,
     trend_template_required : {6}]
    \cup [min_price : {1000}, min_volume : {5},
          min_contractions : {2}, max_contractions : {6},
          max_base_depth : {35}, final_contraction_max : {10},
          breakout_volume_multiplier : {15}, check_trend_template : {TRUE},
          trend_template_required : {8}]
    \cup [min_price : {1000}, min_volume : {5},
          min_contractions : {1, 2}, max_contractions : {2},
          max_base_depth : {35}, final_contraction_max : {10},
          breakout_volume_multiplier : {15}, check_trend_template : {FALSE},
          trend_template_required : {6}]

Symbols == {"AAA"}

NoFrame == [none |-> TRUE, n |-> 0, col |-> <<>>]

\* a handler that notes the exception and raises it again
HandlerReraises(sig, text) ==
    [signal |-> [sig EXCEPT !.notes =
                    Append(@, [text |-> "Error in VCP detection", args |-> <<>>,
                               detail |-> text])],
     raised |-> TRUE]

\* lines 147-149: detect_vcp's handler notes the exception and returns the signal
Handler(sig, text) ==
    [signal |-> [sig EXCEPT !.notes =
                    Append(@, [text |-> "Error in VCP detection", args |-> <<>>,
                               detail |-> text])],
     raised |-> FALSE]

\* scan_for_vcp before it is called
NoScan ==
    [pc |-> "idle", tickers |-> <<>>, i |-> 1, fetched |-> <<>>,
     outcomes |-> <<>>, signals |-> <<>>, raised |-> FALSE]

\* no process writes to the patterns table yet; last is, key by key, the row
\* most recently written
NoBatch == [pc |-> "idle", tickers |-> <<>>, i |-> 1, outcomes |-> <<>>,
            signals |-> <<>>, rows |-> <<>>]
NoWriters == [pc |-> "idle", kind |-> <<>>, calls |-> <<>>, last |-> {}]

\* no page has been requested
NoWalk == [pc |-> "idle", limit |-> 1, cursor |-> <<>>, pages |-> <<>>]

(***************************************************************************)
(* The state machine of detect_vcp.                                        *)
(***************************************************************************)
Init ==
    /\ self \in Configs
    /\ df = NoFrame
    /\ df0 = NoFrame
    /\ symbol = ""
    /\ pc = "idle"
    /\ signal = VCPSignal("")
    /\ swing_highs = <<>>
    /\ swing_lows = <<>>
    /\ contractions = <<>>
    /\ raised = FALSE
    /\ internal_error = ""
    /\ returned = <<>>
    /\ memo = NoValue
    /\ scan = NoScan
    /\ patterns = {}
    /\ writers = NoWriters
    /\ batch = NoBatch
    /\ walk = NoWalk

\* line 96: the call begins on the frame `frame` with a fresh signal
Begin(frame, sym) ==
    /\ df' = frame
    /\ df0' = frame
    /\ symbol' = sym
    /\ signal' = VCPSignal(sym)
    /\ swing_highs' = <<>>
    /\ swing_lows' = <<>>
    /\ contractions' = <<>>
    /\ raised' = FALSE
    /\ internal_error' = ""
    /\ returned' = <<>>
    /\ pc' = "ValidateFrame"
    /\ UNCHANGED self

\* a caller fetches a frame and calls detect_vcp(df, symbol)
Call ==
    /\ pc = "idle"
    /\ \E fp \in FrameShapes, sym \in Symbols : Begin(FrameOf[fp], sym)
    /\ UNCHANGED <<memo, scan, patterns, writers, batch, walk>>

\* lines 99-100
ValidateFrame ==
    /\ pc = "ValidateFrame"
    /\ LET r == validate_data(self, df, signal)
       IN  /\ signal' = r.signal
           /\ pc' = IF r.ok THEN "TrendGate" ELSE "Emit"
    /\ UNCHANGED <<self, df, df0, symbol, swing_highs, swing_lows, contractions,
                   raised, internal_error, returned, memo,
                   scan, patterns, writers, batch, walk>>

\* a trend gate that runs the template once and then switches it off on the
\* detector
TrendGateSwitchesOff ==
    /\ pc = "TrendGate"
    /\ IF self.check_trend_template
       THEN LET r == check_trend_template(df, signal)
            IN  /\ df' = r.frame
                /\ signal' = r.signal
                /\ pc' = IF r.ok THEN "ExtractSwings" ELSE "Emit"
                /\ self' = [self EXCEPT !.check_trend_template = FALSE]
       ELSE /\ pc' = "ExtractSwings"
            /\ UNCHANGED <<self, df, signal, walk>>
    /\ UNCHANGED <<df0, symbol, swing_highs, swing_lows, contractions,
                   raised, internal_error, returned, memo,
                   scan, patterns, writers, batch, walk>>

\* lines 103-105
TrendGate ==
    /\ pc = "TrendGate"
    /\ IF self.check_trend_template
       THEN LET r == check_trend_template(df, signal)
            IN  /\ df' = r.frame
                /\ signal' = r.signal
                /\ pc' = IF r.ok THEN "ExtractSwings" ELSE "Emit"
       ELSE /\ pc' = "ExtractSwings"
            /\ UNCHANGED <<df, signal, walk>>
    /\ UNCHANGED <<self, df0, symbol, swing_highs, swing_lows, contractions,
                   raised, internal_error, returned, memo,
                   scan, patterns, writers, batch, walk>>

\* a swing stage that goes on to the contractions whatever it found
ExtractSwingsUngated ==
    /\ pc = "ExtractSwings"
    /\ LET r == find_swing_points(df, SwingWindow)
       IN  /\ swing_highs' = r.swing_highs
           /\ swing_lows' = r.swing_lows
    /\ pc' = "AssembleContractions"
    /\ UNCHANGED <<self, df, df0, symbol, signal, contractions, raised,
                   internal_error, returned, memo,
                   scan, patterns, writers, batch, walk>>

\* lines 108-112
ExtractSwings ==
    /\ pc = "ExtractSwings"
    /\ LET r == find_swing_points(df, SwingWindow)
           few == \/ Len(r.swing_highs) < self.min_contractions
                  \/ Len(r.swing_lows) < self.min_contractions
       IN  /\ swing_highs' = r.swing_highs
           /\ swing_lows' = r.swing_lows
           /\ signal' = IF few
                        THEN AddNote(signal,
                                "Insufficient swing points for pattern analysis", <<>>)
                        ELSE signal
           /\ pc' = IF few THEN "Emit" ELSE "AssembleContractions"
    /\ UNCHANGED <<self, df, df0, symbol, contractions, raised, internal_error,
                   returned, memo,
                   scan, patterns, writers, batch, walk>>

\* lines 115-119
AssembleContractions ==
    /\ pc = "AssembleContractions"
    /\ LET cs == identify_contractions(df, swing_highs, swing_lows)
           few == Len(cs) < self.min_contractions
       IN  /\ contractions' = cs
           /\ signal' = IF few
                        THEN AddNote(signal, "Only k contractions found, need m",
                                     <<Len(cs), self.min_contractions>>)
                        ELSE signal
           /\ pc' = IF few THEN "Emit" ELSE "ValidatePattern"
    /\ UNCHANGED <<self, df, df0, symbol, swing_highs, swing_lows, raised,
                   internal_error, returned, memo,
                   scan, patterns, writers, batch, walk>>

\* lines 122-124, and the handler of lines 147-149 when the validation raises
ValidatePattern ==
    /\ pc = "ValidatePattern"
    /\ LET r == validate_vcp_pattern(self, contractions, signal)
           h == Handler(r.signal, r.error)
       IN  IF r.error # ""
           THEN /\ internal_error' = r.error
                /\ signal' = h.signal
                /\ raised' = h.raised
                /\ pc' = IF h.raised THEN "done" ELSE "Emit"
           ELSE /\ signal' = r.signal
                /\ pc' = IF r.ok THEN "ComputeMetrics" ELSE "Emit"
                /\ UNCHANGED <<raised, internal_error, walk>>
    /\ UNCHANGED <<self, df, df0, symbol, swing_highs, swing_lows, contractions,
                   returned, memo,
                   scan, patterns, writers, batch, walk>>

\* lines 125-133
ComputeMetrics ==
    /\ pc = "ComputeMetrics"
    /\ signal' = [signal EXCEPT
                    !.detected = TRUE,
                    !.contractions = Some(contractions),
                    !.signal_date = Some(df.n - 1),
                    !.pivot_price = Some(calculate_pivot_price(df, contractions)),
                    !.trend_strength = calculate_trend_strength(df),
                    !.volume_dry_up = check_volume_dry_up(contractions),
                    !.final_contraction_tightness =
                        Some(contractions[Len(contractions)].percent_drop)]
    /\ pc' = "ScoreConfidence"
    /\ UNCHANGED <<self, df, df0, symbol, swing_highs, swing_lows, contractions,
                   raised, internal_error, returned, memo,
                   scan, patterns, writers, batch, walk>>

\* lines 136-138
ScoreConfidence ==
    /\ pc = "ScoreConfidence"
    /\ signal' = [signal EXCEPT !.confidence_score =
                    calculate_confidence_score(signal, Len(contractions),
                                               signal.volume_dry_up, TRUE)]
    /\ pc' = "CheckBreakout"
    /\ UNCHANGED <<self, df, df0, symbol, swing_highs, swing_lows, contractions,
                   raised, internal_error, returned, memo,
                   scan, patterns, writers, batch, walk>>

\* lines 141-143
CheckBreakout ==
    /\ pc = "CheckBreakout"
    /\ signal' = AddNote([signal EXCEPT !.breakout_detected =
                             check_breakout(self, df, signal.pivot_price[1])],
                         "VCP detected with k contractions", <<Len(contractions)>>)
    /\ pc' = "Emit"
    /\ UNCHANGED <<self, df, df0, symbol, swing_highs, swing_lows, contractions,
                   raised, internal_error, returned, memo,
                   scan, patterns, writers, batch, walk>>

\* the return statements of lines 100, 105, 112, 119, 145 and 149
Return ==
    /\ pc = "Emit"
    /\ returned' = Append(returned, signal)
    /\ pc' = "done"
    /\ UNCHANGED <<self, df, df0, symbol, signal, swing_highs, swing_lows,
                   contractions, raised, internal_error, memo,
                   scan, patterns, writers, batch, walk>>

\* the caller lets go of the frame and of the signal
Forget ==
    /\ df' = NoFrame
    /\ df0' = NoFrame
    /\ symbol' = ""
    /\ signal' = VCPSignal("")
    /\ swing_highs' = <<>>
    /\ swing_lows' = <<>>
    /\ contractions' = <<>>
    /\ raised' = FALSE
    /\ internal_error' = ""
    /\ returned' = <<>>
    /\ pc' = "idle"

Release ==
    /\ pc = "done"
    /\ Forget
    /\ UNCHANGED <<self, memo,
                   scan, patterns, writers, batch, walk>>

Next ==
    \/ Call
    \/ Release
    \/ ValidateFrame
    \/ TrendGate
    \/ ExtractSwings
    \/ AssembleContractions
    \/ ValidatePattern
    \/ ComputeMetrics
    \/ ScoreConfidence
    \/ CheckBreakout
    \/ Return

Spec == Init /\ [][Next]_vars

(***************************************************************************)
(* One detector shared by a caller that calls again with the inputs of an  *)
(* earlier call, as scan_for_vcp shares its detector over the symbols.     *)
(***************************************************************************)
SharedSymbols == {"AAA", "BBB"}

SharedShapes ==
    {fp \in FrameShapes :
        \/ fp.kind \in {"None", "fall", "breakout"}
        \/ fp.kind = "bars" /\ fp.P = 140
              /\ fp.cyc \in {<<"deep", "mid", "tight", "tight">>,
                             <<"mid", "tight", "tight">>,
                             <<"tight", "mid", "tight", "tight">>,
                             <<"mid", "tight">>}}

\* a call on any of the shared frames, under any of the symbols
CallShared ==
    /\ pc = "idle"
    /\ \E fp \in SharedShapes, sym \in SharedSymbols : Begin(FrameOf[fp], sym)
    /\ memo' = IF memo = NoValue THEN memo
               ELSE Some([memo[1] EXCEPT !.between = TRUE])
    /\ UNCHANGED <<scan, patterns, writers, batch, walk>>

\* the caller keeps the inputs and the Signal of a call: the detector, the
\* frame as it was handed over, the frame object as the call left it, the
\* symbol; between tells that other calls were made since
Remember ==
    /\ pc = "done"
    /\ memo = NoValue
    /\ Len(returned) = 1
    /\ memo' = Some([self |-> self, frame |-> df0, object |-> df,
                     symbol |-> symbol, signal |-> returned[1],
                     between |-> FALSE])
    /\ Forget
    /\ UNCHANGED <<self, scan, patterns, writers, batch, walk>>

\* a later call with the remembered inputs: an equal frame, or the same
\* frame object again
CallAgain ==
    /\ pc = "idle"
    /\ memo # NoValue
    /\ \E frame \in {memo[1].frame, memo[1].object} : Begin(frame, memo[1].symbol)
    /\ UNCHANGED <<memo, scan, patterns, writers, batch, walk>>

NextShared ==
    \/ CallShared
    \/ Remember
    \/ CallAgain
    \/ Release
    \/ ValidateFrame
    \/ TrendGate
    \/ ExtractSwings
    \/ AssembleContractions
    \/ ValidatePattern
    \/ ComputeMetrics
    \/ ScoreConfidence
    \/ CheckBreakout
    \/ Return

SpecShared == Init /\ [][NextShared]_vars

(***************************************************************************)
(* detect_vcp as one function of the detector, the frame and the symbol,   *)
(* and scan_for_vcp, which calls it over a list of tickers.                *)
(***************************************************************************)
\* the one element of a set of one element: a stage's result, computed once
Only(S) == CHOOSE x \in S : TRUE

\* lines 126-145: the metrics, the score, the breakout test and the last note
detect_metrics(cfg, t, cs, p) ==
    LET Scored(m) == [m EXCEPT !.confidence_score =
                        calculate_confidence_score(m, Len(cs), m.volume_dry_up, TRUE)]
        Finished(c) == AddNote([c EXCEPT !.breakout_detected =
                                   check_breakout(cfg, t.frame, c.pivot_price[1])],
                               "VCP detected with k contractions", <<Len(cs)>>)
    IN  Only({Finished(c) : c \in {Scored(m) : m \in
            {[p.signal EXCEPT
                !.detected = TRUE,
                !.contractions = Some(cs),
                !.signal_date = Some(t.frame.n - 1),
                !.pivot_price = Some(calculate_pivot_price(t.frame, cs)),
                !.trend_strength = calculate_trend_strength(t.frame),
                !.volume_dry_up = check_volume_dry_up(cs),
                !.final_contraction_tightness = Some(cs[Len(cs)].percent_drop)]}}})

\* lines 122-124, and the handler of lines 147-149
detect_pattern(cfg, t, cs, p) ==
    IF p.error # ""
    THEN [signal |-> Handler(p.signal, p.error).signal, frame |-> t.frame]
    ELSE IF ~p.ok THEN [signal |-> p.signal, frame |-> t.frame]
    ELSE [signal |-> detect_metrics(cfg, t, cs, p), frame |-> t.frame]

\* lines 115-119
detect_contractions(cfg, t, cs) ==
    IF Len(cs) < cfg.min_contractions
    THEN [signal |-> AddNote(t.signal, "Only k contractions found, need m",
                             <<Len(cs), cfg.min_contractions>>),
          frame |-> t.frame]
    ELSE Only({detect_pattern(cfg, t, cs, p) :
                 p \in {validate_vcp_pattern(cfg, cs, t.signal)}})

\* lines 108-112
detect_swings(cfg, t, sw) ==
    IF \/ Len(sw.swing_highs) < cfg.min_contractions
       \/ Len(sw.swing_lows) < cfg.min_contractions
    THEN [signal |-> AddNote(t.signal,
                             "Insufficient swing points for pattern analysis", <<>>),
          frame |-> t.frame]
    ELSE Only({detect_contractions(cfg, t, cs) :
                 cs \in {identify_contractions(t.frame, sw.swing_highs,
                                               sw.swing_lows)}})

\* lines 103-105
detect_trend(cfg, t) ==
    IF ~t.ok THEN [signal |-> t.signal, frame |-> t.frame]
    ELSE Only({detect_swings(cfg, t, sw) :
                 sw \in {find_swing_points(t.frame, SwingWindow)}})

\* lines 94-149: the Signal detect_vcp returns and the frame as it leaves it
detect_vcp(cfg, frame, sym) ==
    Only({ IF ~v.ok THEN [signal |-> v.signal, frame |-> frame]
           ELSE Only({detect_trend(cfg, t) :
                        t \in {IF cfg.check_trend_template
                               THEN check_trend_template(frame, v.signal)
                               ELSE [frame |-> frame, ok |-> TRUE,
                                     signal |-> v.signal]}})
           : v \in {validate_data(cfg, frame, VCPSignal(sym))} })

\* the tickers of a scan, in lexicographic order, and the most a scan is given
Tickers == <<"AAA", "BBB">>
MaxTickers == 3

\* what data_fetcher(ticker) does: it raises, returns None, or returns a frame
FetchShapes ==
    {fp \in FrameShapes :
        /\ fp.kind = "bars" /\ fp.P = 140
        /\ fp.cyc \in {<<"mid", "tight", "tight">>,
                       <<"mid", "mid", "tight", "tight">>,
                       <<"deep", "mid", "tight", "tight">>}}

NoShape == [kind |-> "None", P |-> 0, T |-> 0, drift |-> 0, cyc |-> <<>>]

FetchOutcomes ==
    [what : {"raise", "None"}, shape : {NoShape}]
    \cup [what : {"frame"}, shape : FetchShapes]

\* the Signal of detect_vcp on each frame a fetch can return
SignalOf ==
    LET table == [cfg \in Configs, fp \in FetchShapes,
                  sym \in {Tickers[i] : i \in 1..Len(Tickers)}
                    |-> detect_vcp(cfg, FrameOf[fp], sym).signal]
    IN  IF table = table THEN table ELSE table     \* computed once, as a table

\* line 533: signals.sort(key=confidence_score, reverse=True), a stable sort
RECURSIVE InsertByConfidence(_, _)
InsertByConfidence(sorted, x) ==
    IF sorted = <<>> THEN <<x>>
    ELSE IF Ge(sorted[Len(sorted)].confidence_score, x.confidence_score)
         THEN Append(sorted, x)
         ELSE Append(InsertByConfidence(SubSeq(sorted, 1, Len(sorted) - 1), x),
                     sorted[Len(sorted)])
RECURSIVE SortByConfidence(_)
SortByConfidence(xs) ==
    IF xs = <<>> THEN <<>>
    ELSE InsertByConfidence(SortByConfidence(SubSeq(xs, 1, Len(xs) - 1)), xs[Len(xs)])

\* an exception of the loop body that leaves scan_for_vcp
SkipAborts(sc) == [sc EXCEPT !.raised = TRUE, !.pc = "returned"]

\* lines 529-530: the except clause prints the error and the loop goes on
Skip(sc) == sc

\* lines 509-510: a scan of `tickers` begins with a new detector and no signals
ScanStart ==
    /\ scan.pc = "idle"
    /\ \E ts \in Shapes({Tickers[i] : i \in 1..Len(Tickers)}, MaxTickers) :
          scan' = [NoScan EXCEPT !.pc = "loop", !.tickers = ts]
    /\ UNCHANGED <<self, df, df0, symbol, pc, signal, swing_highs, swing_lows,
                   contractions, raised, internal_error, returned, memo,
                   patterns, writers, batch, walk>>

\* lines 512-530: one turn of the loop, on the next ticker
ScanTicker ==
    /\ scan.pc = "loop"
    /\ scan.i <= Len(scan.tickers)
    /\ \E o \in FetchOutcomes :
          LET ticker == scan.tickers[scan.i]
              sc == [scan EXCEPT !.i = @ + 1,
                                 !.fetched = Append(@, ticker),
                                 !.outcomes = Append(@, o)]
          IN  CASE o.what = "raise" -> scan' = Skip(sc)
                [] o.what = "None" -> scan' = sc
                [] OTHER ->
                     \E frame \in {MakeFrame(o.shape)} :
                     \E sig \in {detect_vcp(self, frame, ticker).signal} :
                        scan' = IF sig.detected
                                THEN [sc EXCEPT !.signals = Append(@, sig)]
                                ELSE sc
    /\ UNCHANGED <<self, df, df0, symbol, pc, signal, swing_highs, swing_lows,
                   contractions, raised, internal_error, returned, memo,
                   patterns, writers, batch, walk>>

\* lines 532-535: after the last ticker the signals are sorted and returned
ScanFinish ==
    /\ scan.pc = "loop"
    /\ scan.i > Len(scan.tickers)
    /\ scan' = [scan EXCEPT !.pc = "returned", !.signals = SortByConfidence(@)]
    /\ UNCHANGED <<self, df, df0, symbol, pc, signal, swing_highs, swing_lows,
                   contractions, raised, internal_error, returned, memo,
                   patterns, writers, batch, walk>>

NextScan ==
    \/ ScanStart
    \/ ScanTicker
    \/ ScanFinish

\* no detector_params: VCPDetector() with the defaults of lines 54-61
InitScan ==
    /\ Init
    /\ self.max_contractions = 6
    /\ self.trend_template_required = 6
    /\ self.check_trend_template

SpecScan == InitScan /\ [][NextScan]_vars

(***************************************************************************)
(* The patterns table and its writers: upsert_patterns of worker/utils.py, *)
(* called from scan_batch.main, and the upsert statement of                *)
(* run_scan_endpoint.  The table keeps one row per (ticker, pattern,       *)
(* as_of), its primary key.  Each call runs in a transaction of its own    *)
(* (engine.begin()), which the table sees as one step.                     *)
(***************************************************************************)
KeyColumns == {"ticker", "pattern", "as_of"}
Columns == KeyColumns \cup {"confidence", "rs", "price", "meta"}

KeyOf(row) == <<row.ticker, row.pattern, row.as_of>>

\* the rows a writer may hold: two keys, and three contents of the other
\* columns (confidence, rs, price, meta.contractions)
AsOfs == {1, 2}
Payloads ==
    { [confidence |-> 80, rs |-> NoValue, price |-> Some(100), meta |-> 2],
      [confidence |-> 90, rs |-> Some(95), price |-> Some(110), meta |-> 3],
      [confidence |-> 85, rs |-> NoValue, price |-> Some(105), meta |-> 4] }

Row(as_of, payload) ==
    [ticker |-> "AAA", pattern |-> "VCP", as_of |-> as_of,
     confidence |-> payload.confidence, rs |-> payload.rs,
     price |-> payload.price, meta |-> payload.meta]

Rows == {Row(t, p) : t \in AsOfs, p \in Payloads}

\* the record run_scan_endpoint builds has rs = None (line 327)
EndpointRows == {r \in Rows : r.rs = NoValue}

\* the rows of one call, at most MaxBatch of them
MaxBatch == 2
Batches(S) == Shapes(S, MaxBatch)

\* INSERT without ON CONFLICT into a table without the primary key
insert_row(table, row, set_cols) == table \cup {row}

\* INSERT INTO patterns ... ON CONFLICT (ticker, pattern, as_of) DO UPDATE
\* SET c = EXCLUDED.c for the columns c of set_cols
upsert_row(table, row, set_cols) ==
    IF \E r \in table : KeyOf(r) = KeyOf(row)
    THEN { IF KeyOf(r) = KeyOf(row)
           THEN [c \in Columns |-> IF c \in set_cols THEN row[c] ELSE r[c]]
           ELSE r : r \in table }
    ELSE table \cup {row}

\* utils.py line 17: every column of the rows but the key
UpsertSetCols == Columns \ KeyColumns

\* legend_ai_backend.py line 341: confidence, price and meta
EndpointSetCols == {"confidence", "price", "meta"}

\* utils.py lines 10-22: nothing for no rows, else the statement on every row
RECURSIVE upsert_patterns(_, _)
upsert_patterns(table, rows) ==
    IF rows = <<>> THEN table
    ELSE upsert_patterns(upsert_row(table, Head(rows), UpsertSetCols), Tail(rows))

\* the upserts each writer makes
MaxCalls == 2

\* two writers start: scan_batch.main, and a second scan_batch.main or the
\* scan endpoint
StartWriters ==
    /\ writers.pc = "idle"
    /\ \E second \in {"worker", "endpoint"} :
          writers' = [pc |-> "writing", kind |-> <<"worker", second>>,
                      calls |-> <<MaxCalls, MaxCalls>>, last |-> patterns]
    /\ UNCHANGED <<self, df, df0, symbol, pc, signal, swing_highs, swing_lows,
                   contractions, raised, internal_error, returned, memo,
                   scan, patterns, batch, walk>>

\* scan_batch.py line 98: writer w calls upsert_patterns(engine, rows)
WorkerUpsert(w) ==
    /\ writers.pc = "writing"
    /\ writers.kind[w] = "worker"
    /\ writers.calls[w] > 0
    /\ \E rows \in Batches(Rows) :
          /\ patterns' = upsert_patterns(patterns, rows)
          /\ writers' = [writers EXCEPT
                           !.calls[w] = @ - 1,
                           !.last = upsert_patterns(@, rows)]
    /\ UNCHANGED <<self, df, df0, symbol, pc, signal, swing_highs, swing_lows,
                   contractions, raised, internal_error, returned, memo, scan, batch, walk>>

\* legend_ai_backend.py lines 335-352: writer w executes the endpoint's
\* statement on the record of a detected ticker
EndpointUpsert(w) ==
    /\ writers.pc = "writing"
    /\ writers.kind[w] = "endpoint"
    /\ writers.calls[w] > 0
    /\ \E row \in EndpointRows :
          /\ patterns' = upsert_row(patterns, row, EndpointSetCols)
          /\ writers' = [writers EXCEPT
                           !.calls[w] = @ - 1,
                           !.last = upsert_row(@, row, UpsertSetCols)]
    /\ UNCHANGED <<self, df, df0, symbol, pc, signal, swing_highs, swing_lows,
                   contractions, raised, internal_error, returned, memo, scan, batch, walk>>

\* both writers have made their calls
WritersDone ==
    /\ writers.pc = "writing"
    /\ \A w \in 1..2 : writers.calls[w] = 0
    /\ writers' = [writers EXCEPT !.pc = "done"]
    /\ UNCHANGED <<self, df, df0, symbol, pc, signal, swing_highs, swing_lows,
                   contractions, raised, internal_error, returned, memo,
                   scan, patterns, batch, walk>>

NextStore ==
    \/ StartWriters
    \/ \E w \in 1..2 : WorkerUpsert(w)
    \/ \E w \in 1..2 : EndpointUpsert(w)
    \/ WritersDone

InitStore ==
    /\ Init
    /\ self.max_contractions = 6
    /\ self.check_trend_template

SpecStore == InitStore /\ [][NextStore]_vars

(***************************************************************************)
(* The batch worker: run_one and main of worker/scan_batch.py.             *)
(***************************************************************************)
\* lines 54-59: VCPDetector(min_price=10.0, min_volume=500000,
\* min_contractions=2, check_trend_template=True)
WorkerDetector ==
    [min_price |-> 1000, min_volume |-> 5, min_contractions |-> 2,
     max_contractions |-> 6, max_base_depth |-> 35, final_contraction_max |-> 10,
     breakout_volume_multiplier |-> 15, check_trend_template |-> TRUE,
     trend_template_required |-> 6]

\* a frame of 49 bars
ShortShape == [kind |-> "bars", P |-> 0, T |-> 49, drift |-> 0, cyc |-> <<"mid", "tight">>]

\* what fetch_price_data(ticker) returns: None, or a frame
BatchOutcomes ==
    [what : {"None"}, shape : {NoShape}]
    \cup [what : {"frame"}, shape : FetchShapes \cup {ShortShape}]

\* an attribute of the Signal object: a field of the dataclass (lines 29-42)
HasAttr(sig, name) == name \in DOMAIN sig

\* lines 66-82: the record of a detected Signal.  Line 76 reads
\* signal.base_depth_percent; without that attribute it raises
\* AttributeError, which line 84 catches, and run_one returns [].
RecordOf(ticker, sig, now) ==
    IF ~HasAttr(sig, "base_depth_percent") THEN <<>>
    ELSE << [ticker |-> ticker,
             pattern |-> "VCP",
             as_of |-> now,
             confidence |-> sig.confidence_score,
             rs |-> NoValue,
             price |-> IF sig.pivot_price # NoValue /\ sig.pivot_price[1][1] # 0
                       THEN sig.pivot_price ELSE NoValue,
             meta |-> [contractions |-> Len(sig.contractions[1]),
                       base_depth |-> sig["base_depth_percent"],
                       notes |-> sig.notes]] >>

\* lines 47-86: the rows run_one returns, and the Signal detect_vcp gave it
run_one(ticker, o, now) ==
    IF o.what = "None" THEN [rows |-> <<>>, signal |-> NoValue]
    ELSE Only({ IF frame.n < 50 THEN [rows |-> <<>>, signal |-> NoValue]
                ELSE Only({ [rows |-> IF sig.detected
                                      THEN RecordOf(ticker, sig, now) ELSE <<>>,
                             signal |-> Some(sig)]
                            : sig \in {detect_vcp(WorkerDetector, frame, ticker).signal} })
                : frame \in {MakeFrame(o.shape)} })

\* line 91: main loads the universe
BatchStart ==
    /\ batch.pc = "idle"
    /\ \E ts \in Shapes({Tickers[i] : i \in 1..Len(Tickers)}, MaxTickers) :
          batch' = [NoBatch EXCEPT !.pc = "loop", !.tickers = ts]
    /\ UNCHANGED <<self, df, df0, symbol, pc, signal, swing_highs, swing_lows,
                   contractions, raised, internal_error, returned, memo,
                   scan, patterns, writers, walk>>

\* lines 95-99: one turn of main's loop; the time of the turn is its number
BatchTicker ==
    /\ batch.pc = "loop"
    /\ batch.i <= Len(batch.tickers)
    /\ \E o \in BatchOutcomes :
       \E r \in {run_one(batch.tickers[batch.i], o, batch.i)} :
          /\ batch' = [batch EXCEPT !.i = @ + 1,
                                    !.outcomes = Append(@, o),
                                    !.signals = Append(@, r.signal),
                                    !.rows = Append(@, r.rows)]
          /\ patterns' = IF r.rows # <<>> THEN upsert_patterns(patterns, r.rows)
                         ELSE patterns
    /\ UNCHANGED <<self, df, df0, symbol, pc, signal, swing_highs, swing_lows,
                   contractions, raised, internal_error, returned, memo,
                   scan, writers, walk>>

\* line 101: the scan is complete
BatchFinish ==
    /\ batch.pc = "loop"
    /\ batch.i > Len(batch.tickers)
    /\ batch' = [batch EXCEPT !.pc = "done"]
    /\ UNCHANGED <<self, df, df0, symbol, pc, signal, swing_highs, swing_lows,
                   contractions, raised, internal_error, returned, memo,
                   scan, patterns, writers, walk>>

NextBatch ==
    \/ BatchStart
    \/ BatchTicker
    \/ BatchFinish

InitBatch ==
    /\ Init
    /\ self = WorkerDetector

SpecBatch == InitBatch /\ [][NextBatch]_vars

(***************************************************************************)
(* The read API: fetch_patterns of app/db_queries.py, called by            *)
(* patterns_all_v1.  A timestamp is a number, its ISO text the pair         *)
(* <<"iso", number>>; a cursor is the pair <<"b64", payload>>.             *)
(***************************************************************************)
PagePatterns == {"VCP", "Flag"}

\* the rows the table may hold: the key (ticker, pattern, as_of) tells them apart
PageRows ==
    {[ticker |-> t, pattern |-> p, as_of |-> d, confidence |-> 80,
      rs |-> NoValue, price |-> Some(100), meta |-> 2] :
        t \in {Tickers[i] : i \in 1..Len(Tickers)}, p \in PagePatterns, d \in AsOfs}

MaxRows == 3
MaxLimit == 3

Tables == {S \in SUBSET PageRows : Cardinality(S) <= MaxRows}

\* datetime.isoformat() and datetime.fromisoformat()
isoformat(d) == <<"iso", d>>
fromisoformat(text) == text[2]

\* the place of a ticker in the order of the text column
TickerRank(t) == CHOOSE i \in 1..Len(Tickers) : Tickers[i] = t

\* lines 19-21: base64 of the JSON object {"as_of_iso": ..., "ticker": ...}
encode_cursor(as_of_iso, ticker) ==
    <<"b64", [as_of_iso |-> as_of_iso, ticker |-> ticker]>>

\* lines 24-34: None for no cursor and for text that is not base64 of a JSON
\* object, else the two fields of the object
decode_cursor(cursor) ==
    IF cursor = NoValue THEN NoValue
    ELSE IF cursor[1] # "b64" THEN NoValue
    ELSE Some([as_of_iso |-> cursor[2].as_of_iso, ticker |-> cursor[2].ticker])

\* lines 46-51: the rows the WHERE clause keeps
RowsAfter(table, after) ==
    IF after # NoValue /\ after[1].as_of_iso # "" /\ after[1].ticker # ""
    THEN LET after_as_of == fromisoformat(after[1].as_of_iso)
             after_ticker == after[1].ticker
         IN  {r \in table :
                \/ r.as_of < after_as_of
                \/ r.as_of = after_as_of
                      /\ TickerRank(r.ticker) > TickerRank(after_ticker)}
    ELSE table

\* ORDER BY as_of DESC, ticker ASC: a and b may follow one another
InPageOrder(a, b) ==
    \/ a.as_of > b.as_of
    \/ a.as_of = b.as_of /\ TickerRank(a.ticker) <= TickerRank(b.ticker)

\* the orders in which the database may return the rows of S: rows equal in
\* the ORDER BY columns come in any order
OrderBy(S) ==
    {q \in [1..Cardinality(S) -> S] :
        /\ \A i, j \in DOMAIN q : i # j => q[i] # q[j]
        /\ \A i \in DOMAIN q : i < Len(q) => InPageOrder(q[i], q[i + 1])}

\* lines 66-76: the item of a row
PatternItem(r) == [r EXCEPT !.as_of = isoformat(r.as_of)]

\* lines 37-86: the results fetch_patterns(engine, limit, cursor) may return
\* on the table `table`
fetch_patterns(table, limit, cursor) ==
    LET after == decode_cursor(cursor)
    IN  {LET rows == [i \in 1..(IF Len(q) < limit THEN Len(q) ELSE limit) |->
                         PatternItem(q[i])]
             last == rows[Len(rows)]
         IN  [items |-> rows,
              next_cursor |-> IF rows # <<>> /\ last.as_of # NoValue /\ last.ticker # ""
                              THEN encode_cursor(last.as_of, last.ticker)
                              ELSE NoValue] :
         q \in OrderBy(RowsAfter(table, after))}

\* a client asks for the first page: GET /patterns/all?limit=...
StartWalk ==
    /\ walk.pc = "idle"
    /\ \E limit \in 1..MaxLimit :
          walk' = [pc |-> "paging", limit |-> limit, cursor |-> NoValue, pages |-> <<>>]
    /\ UNCHANGED <<self, df, df0, symbol, pc, signal, swing_highs, swing_lows,
                   contractions, raised, internal_error, returned, memo,
                   scan, patterns, writers, batch>>

\* legend_ai_backend.py lines 115-143: patterns_all_v1 answers with a page of
\* fetch_patterns and its next cursor; the client stops at next = None
FetchPage ==
    /\ walk.pc = "paging"
    /\ \E r \in fetch_patterns(patterns, walk.limit, walk.cursor) :
          walk' = [walk EXCEPT !.pages = Append(@, r.items),
                               !.cursor = r.next_cursor,
                               !.pc = IF r.next_cursor = NoValue THEN "done"
                                      ELSE "paging"]
    /\ UNCHANGED <<self, df, df0, symbol, pc, signal, swing_highs, swing_lows,
                   contractions, raised, internal_error, returned, memo,
                   scan, patterns, writers, batch>>

NextPages ==
    \/ StartWalk
    \/ FetchPage

\* the table holds any rows; nothing writes to it during the walk
InitPages ==
    /\ self = WorkerDetector
    /\ df = NoFrame
    /\ df0 = NoFrame
    /\ symbol = ""
    /\ pc = "idle"
    /\ signal = VCPSignal("")
    /\ swing_highs = <<>>
    /\ swing_lows = <<>>
    /\ contractions = <<>>
    /\ raised = FALSE
    /\ internal_error = ""
    /\ returned = <<>>
    /\ memo = NoValue
    /\ scan = NoScan
    /\ patterns \in Tables
    /\ writers = NoWriters
    /\ batch = NoBatch
    /\ walk = NoWalk

SpecPages == InitPages /\ [][NextPages]_vars

\* the client goes on asking while a next cursor is returned
FairSpecPages == SpecPages /\ WF_vars(FetchPage)

(***************************************************************************)
(* Properties of detect_vcp.                                               *)
(***************************************************************************)
HasNote(sig, text) == \E i \in 1..Len(sig.notes) : sig.notes[i].text = text

Ended == pc = "done"

\* C1: a call of detect_vcp that has ended has returned exactly one Signal and
\* has raised nothing; when its body raised, the Signal is negative and its
\* notes carry the text of the exception.
C1_ReturnsOneSignal ==
    Ended =>
        /\ ~raised
        /\ Len(returned) = 1
        /\ internal_error # "" =>
              /\ ~returned[1].detected
              /\ \E i \in 1..Len(returned[1].notes) :
                    /\ returned[1].notes[i].text = "Error in VCP detection"
                    /\ returned[1].notes[i].detail = internal_error

\* a call whose validation divided by zero has ended
C1_Witness ==
    /\ Ended
    /\ internal_error = "division by zero"
    /\ Len(returned) = 1

\* C2: a returned Signal with detected = false has a note, and neither a pivot
\* price nor contractions.
C2_NegativeSignalExplained ==
    \A i \in 1..Len(returned) :
        ~returned[i].detected =>
            /\ returned[i].notes # <<>>
            /\ returned[i].pivot_price = NoValue
            /\ returned[i].contractions = NoValue

\* a Signal rejected by the pattern validation has been returned
C2_Witness ==
    /\ Len(returned) = 1
    /\ ~returned[1].detected
    /\ Len(contractions) >= self.min_contractions
    /\ HasNote(returned[1], "Base too deep")

\* C3: a detected Signal reports at least min_contractions and at most
\* max_contractions contractions.
C3_ReportedCountInRange ==
    \A i \in 1..Len(returned) :
        returned[i].detected =>
            /\ self.min_contractions <= Len(returned[i].contractions[1])
            /\ Len(returned[i].contractions[1]) <= self.max_contractions

\* C4: the base depth over the contractions a detected Signal reports is at
\* most max_base_depth.
C4_ReportedBaseDepth ==
    \A i \in 1..Len(returned) :
        returned[i].detected =>
            Le(BaseDepth(returned[i].contractions[1]), Pct(self.max_base_depth))

\* C5: at least 60% of the adjacent pairs of the contractions a detected
\* Signal reports do not increase in percent_drop.
C5_ReportedMostlyDecreasing ==
    \A i \in 1..Len(returned) :
        returned[i].detected =>
            LET cs == returned[i].contractions[1]
            IN  /\ Len(cs) >= 2
                /\ Ge(<<DecreasingCount(cs), Len(cs) - 1>>, <<6, 10>>)

\* C6: a list that passed the checks before it is rejected for its final
\* tightness exactly when its last percent_drop is greater than
\* final_contraction_max (an equal one is accepted), and the last contraction
\* of a detected Signal drops by at most final_contraction_max.
C6_FinalTightness ==
    Ended /\ Len(returned) = 1 /\ Len(contractions) >= self.min_contractions
          /\ internal_error = ""
          /\ ~HasNote(returned[1], "Contractions not sufficiently decreasing")
    =>  LET last == contractions[Len(contractions)]
            wide == Gt(last.percent_drop, Pct(self.final_contraction_max))
        IN  /\ HasNote(returned[1], "Final contraction too wide") <=> wide
            /\ wide => ~returned[1].detected
            /\ returned[1].detected =>
                  LET cs == returned[1].contractions[1]
                  IN  Le(cs[Len(cs)].percent_drop, Pct(self.final_contraction_max))

\* a Signal detected with a last drop equal to final_contraction_max
C6_Witness ==
    /\ Ended
    /\ Len(returned) = 1
    /\ returned[1].detected
    /\ LET cs == returned[1].contractions[1]
       IN  /\ Le(cs[Len(cs)].percent_drop, Pct(self.final_contraction_max))
           /\ Ge(cs[Len(cs)].percent_drop, Pct(self.final_contraction_max))

\* C7: every contraction of _identify_contractions ends after it starts, has
\* its high above its low, and a percent_drop strictly between 0 and 1.
C7_ContractionsWellFormed ==
    \A i \in 1..Len(contractions) :
        /\ contractions[i].end_date > contractions[i].start_date
        /\ contractions[i].high_price > contractions[i].low_price
        /\ Gt(contractions[i].percent_drop, Num(0))
        /\ Lt(contractions[i].percent_drop, Num(1))

\* C8: the confidence score of a detected Signal is within 0 .. 100 and its
\* trend strength within 0 .. 1.
C8_ScoresInRange ==
    \A i \in 1..Len(returned) :
        returned[i].detected =>
            /\ Ge(returned[i].confidence_score, Num(0))
            /\ Le(returned[i].confidence_score, Num(100))
            /\ Ge(returned[i].trend_strength, Num(0))
            /\ Le(returned[i].trend_strength, Num(1))

\* a detected Signal whose trend strength is 1
C8_Witness ==
    /\ Len(returned) = 1
    /\ returned[1].detected
    /\ Ge(returned[1].trend_strength, Num(1))
    /\ Gt(returned[1].confidence_score, Num(50))

\* C9: after a call of detect_vcp the frame has the columns and the values it
\* had before the call.
C9_FrameUntouched == Ended => df = df0

\* C10: a call with the detector, the frame and the symbol of a remembered
\* call returns the remembered Signal, whatever calls were made in between,
\* and the detector's configuration is the one the remembered call ran under.
C10_SameInputsSameSignal ==
    memo # NoValue =>
        /\ self = memo[1].self
        /\ (Ended /\ symbol = memo[1].symbol
                  /\ df0 \in {memo[1].frame, memo[1].object})
           => /\ Len(returned) = 1
              /\ returned[1] = memo[1].signal

\* a call with remembered inputs that detected a pattern, on the frame object
\* an earlier call had written to and after other calls, has ended
C10_Witness ==
    /\ memo # NoValue
    /\ Ended
    /\ symbol = memo[1].symbol
    /\ df0 = memo[1].object
    /\ memo[1].object # memo[1].frame
    /\ memo[1].between
    /\ Len(returned) = 1
    /\ returned[1].detected

\* C11: a call runs the stages in the order ValidateFrame, TrendGate,
\* ExtractSwings, AssembleContractions, ValidatePattern, ComputeMetrics,
\* ScoreConfidence, CheckBreakout; a stage goes on to the next only when its
\* gate passed and otherwise straight to Emit with detected = false, and Emit
\* with detected = true is entered from CheckBreakout only.
StageOrder ==
    /\ pc = "idle" => pc' = "ValidateFrame"
    /\ pc = "ValidateFrame" =>
          \/ pc' = "TrendGate" /\ signal'.notes = <<>>
          \/ pc' = "Emit" /\ ~signal'.detected /\ Len(signal'.notes) = 1
    /\ pc = "TrendGate" =>
          \/ pc' = "ExtractSwings" /\ signal'.notes = <<>>
          \/ pc' = "Emit" /\ ~signal'.detected /\ self.check_trend_template
    /\ pc = "ExtractSwings" =>
          \/ /\ pc' = "AssembleContractions"
             /\ Len(swing_highs') >= self.min_contractions
             /\ Len(swing_lows') >= self.min_contractions
          \/ /\ pc' = "Emit" /\ ~signal'.detected
             /\ \/ Len(swing_highs') < self.min_contractions
                \/ Len(swing_lows') < self.min_contractions
    /\ pc = "AssembleContractions" =>
          \/ pc' = "ValidatePattern" /\ Len(contractions') >= self.min_contractions
          \/ pc' = "Emit" /\ ~signal'.detected
                /\ Len(contractions') < self.min_contractions
    /\ pc = "ValidatePattern" =>
          \/ pc' = "ComputeMetrics" /\ internal_error' = ""
          \/ pc' = "Emit" /\ ~signal'.detected /\ signal'.notes # signal.notes
    /\ pc = "ComputeMetrics" => pc' = "ScoreConfidence" /\ signal'.detected
    /\ pc = "ScoreConfidence" => pc' = "CheckBreakout"
    /\ pc = "CheckBreakout" => pc' = "Emit" /\ signal'.detected
    /\ pc = "Emit" => pc' = "done" /\ signal' = signal
    /\ pc = "done" => pc' = "idle"
    /\ (pc' = "Emit" /\ signal'.detected) => pc = "CheckBreakout"
    /\ pc \notin {"CheckBreakout", "Emit"} => signal'.breakout_detected = FALSE
    /\ pc \notin {"ComputeMetrics", "ScoreConfidence", "CheckBreakout", "Emit"}
          => signal'.pivot_price = NoValue /\ signal'.confidence_score = Num(0)

C11_StagesInOrder == [][StageOrder]_vars

\* a call is at Emit with detected = true, its metrics, score and breakout set
C11_Witness ==
    /\ pc = "Emit"
    /\ signal.detected
    /\ signal.pivot_price # NoValue
    /\ Gt(signal.confidence_score, Num(0))
    /\ HasNote(signal, "VCP detected with k contractions")

\* C12: _validate_data rejects a frame exactly when it has fewer than 60 bars,
\* or lacks one of Open, High, Low, Close, Volume, or its last close is below
\* min_price, or the mean volume of its last 50 bars is below min_volume; a
\* rejection appends one note, that of the first of these that holds.
FirstFailing(cfg, frame) ==
    CASE frame.none \/ frame.n < 60 -> "Insufficient data points (need 60+ days)"
      [] ~frame.none /\ frame.n >= 60
            /\ \E c \in {"Open", "High", "Low", "Close", "Volume"} :
                  c \notin DOMAIN frame.col
         -> "Missing required OHLCV columns"
      [] OTHER ->
           LET volume == frame.col["Volume"]
               total == SumRange(volume, frame.n - 50, frame.n - 1)
           IN  IF frame.col["Close"][frame.n - 1] < cfg.min_price
               THEN "Price below minimum"
               ELSE IF total < 50 * cfg.min_volume THEN "Volume below minimum"
               ELSE ""

ValidateStep ==
    pc = "ValidateFrame" =>
        LET failing == FirstFailing(self, df)
        IN  IF failing = ""
            THEN pc' = "TrendGate" /\ signal' = signal
            ELSE /\ pc' = "Emit"
                 /\ Len(signal'.notes) = 1
                 /\ signal'.notes[1].text = failing

C12_ValidateData == [][ValidateStep]_vars

\* a frame of exactly 60 bars, its last close equal to min_price and its mean
\* volume equal to min_volume, was admitted
C12_Witness ==
    /\ pc = "TrendGate"
    /\ df.n = 60
    /\ df.col["Close"][df.n - 1] = self.min_price
    /\ SumRange(df.col["Volume"], df.n - 50, df.n - 1) = 50 * self.min_volume

\* the number of trend-template criteria the frame of the call passes
PassedCriteria ==
    LET criteria == TrendCriteria(WithMovingAverages(df0))
    IN  Cardinality({i \in 1..8 : criteria[i]})

PastTrendGate ==
    pc \in {"ExtractSwings", "AssembleContractions", "ValidatePattern",
            "ComputeMetrics", "ScoreConfidence", "CheckBreakout"}

TrendRejected == pc = "Emit" /\ HasNote(signal, "Trend Template: k/8 criteria passed")

\* C13: the trend gate admits a frame exactly when check_trend_template is
\* false or the frame passes at least trend_template_required of the 8
\* criteria; a bypassed gate adds no note, and the note of a rejection is
\* "Trend Template: k/8 criteria passed" with k the number passed.
C13_TrendGate ==
    /\ PastTrendGate /\ self.check_trend_template
          => PassedCriteria >= self.trend_template_required
    /\ TrendRejected
          => /\ self.check_trend_template
             /\ PassedCriteria < self.trend_template_required
             /\ signal.notes = <<Note("Trend Template: k/8 criteria passed",
                                      <<PassedCriteria>>)>>
    /\ pc = "ExtractSwings" /\ ~self.check_trend_template => signal.notes = <<>>

(***************************************************************************)
(* Properties of scan_for_vcp.                                             *)
(***************************************************************************)
\* the detected Signals of the first k tickers, each from its own fetch alone
RECURSIVE CollectedUpTo(_)
CollectedUpTo(k) ==
    IF k = 0 THEN <<>>
    ELSE LET o == scan.outcomes[k]
             before == CollectedUpTo(k - 1)
         IN  IF o.what = "frame" /\ SignalOf[self, o.shape, scan.tickers[k]].detected
             THEN Append(before, SignalOf[self, o.shape, scan.tickers[k]])
             ELSE before

Occurrences(xs, x) == Cardinality({i \in 1..Len(xs) : xs[i] = x})

SameBag(xs, ys) ==
    /\ Len(xs) = Len(ys)
    /\ \A i \in 1..Len(xs) : Occurrences(xs, xs[i]) = Occurrences(ys, xs[i])

\* C14: scan_for_vcp fetches every ticker once and in order, raises nothing
\* and returns; what it collects for a ticker depends on that ticker's fetch
\* alone, a raising or null fetch is skipped, and only detected Signals are
\* returned.
C14_ScanSkipsFailures ==
    scan.pc # "idle" =>
        /\ ~scan.raised
        /\ scan.fetched = SubSeq(scan.tickers, 1, scan.i - 1)
        /\ scan.pc = "loop" => scan.signals = CollectedUpTo(scan.i - 1)
        /\ scan.pc = "returned" =>
              /\ scan.i = Len(scan.tickers) + 1
              /\ SameBag(scan.signals, CollectedUpTo(Len(scan.tickers)))
              /\ \A i \in 1..Len(scan.signals) : scan.signals[i].detected

\* a scan of three tickers has returned the Signal of its last ticker, after a
\* fetch that raised and a fetch that returned None
C14_Witness ==
    /\ scan.pc = "returned"
    /\ Len(scan.tickers) = 3
    /\ scan.outcomes[1].what = "raise"
    /\ scan.outcomes[2].what = "None"
    /\ scan.outcomes[3].what = "frame"
    /\ Len(scan.signals) = 1
    /\ scan.signals[1].symbol = scan.tickers[3]

\* the place of a symbol in lexicographic order
SymbolRank(sym) == CHOOSE i \in 1..Len(Tickers) : Tickers[i] = sym

\* C15: the list scan_for_vcp returns is in descending order of
\* confidence_score, and Signals of equal confidence_score are in ascending
\* order of symbol.
C15_SortedTiesBySymbol ==
    scan.pc = "returned" =>
        \A i, j \in 1..Len(scan.signals) :
            i < j =>
                \/ Gt(scan.signals[i].confidence_score, scan.signals[j].confidence_score)
                \/ /\ Ge(scan.signals[i].confidence_score,
                         scan.signals[j].confidence_score)
                   /\ SymbolRank(scan.signals[i].symbol)
                         <= SymbolRank(scan.signals[j].symbol)

(***************************************************************************)
(* Properties of the patterns table.                                       *)
(***************************************************************************)
OneRowPerKey(table) == \A r1, r2 \in table : KeyOf(r1) = KeyOf(r2) => r1 = r2

\* C16: upsert_patterns called twice with the same rows leaves the table as
\* one call leaves it, with one row for each key.
C16_UpsertIdempotent ==
    \A rows \in Batches(Rows) :
        LET once == upsert_patterns(patterns, rows)
        IN  /\ upsert_patterns(once, rows) = once
            /\ OneRowPerKey(once)
            /\ \A i \in 1..Len(rows) : \E r \in once : KeyOf(r) = KeyOf(rows[i])

\* the table holds a row whose key a later upsert of other contents would hit
C16_Witness ==
    /\ patterns # {}
    /\ \E rows \in Batches(Rows) :
          /\ rows # <<>>
          /\ \E r \in patterns : KeyOf(r) = KeyOf(rows[1]) /\ r # rows[1]
          /\ upsert_patterns(patterns, rows) # patterns

\* C17: however the upserts of two writers interleave, the table has one row
\* for each key, and its row for a key is, in every column, the row that was
\* written last under that key.
C17_LastWriterWins ==
    writers.pc # "idle" =>
        /\ OneRowPerKey(patterns)
        /\ patterns = writers.last

\* C18: the swing stage records bar i as a swing high exactly when
\* w <= i <= n-w-1 and high[i] is the maximum of high[i-w .. i+w], and as a
\* swing low exactly when i is in that range and low[i] is the minimum of
\* low[i-w .. i+w]; each point carries the bar's own price, and both lists
\* are in ascending order of index.
IndicesOf(points) == {points[k].index : k \in 1..Len(points)}

AscendingIndex(points) ==
    \A k \in 1..(Len(points) - 1) : points[k].index < points[k + 1].index

SwingStep ==
    pc = "ExtractSwings" =>
        LET n == df.n
            w == SwingWindow
            highs == df.col["High"]
            lows == df.col["Low"]
        IN  /\ \A i \in 0..(n - 1) :
                  /\ i \in IndicesOf(swing_highs') <=>
                        /\ w <= i
                        /\ i <= n - w - 1
                        /\ highs[i] = MaxRange(highs, i - w, i + w)
                  /\ i \in IndicesOf(swing_lows') <=>
                        /\ w <= i
                        /\ i <= n - w - 1
                        /\ lows[i] = MinRange(lows, i - w, i + w)
            /\ IndicesOf(swing_highs') \cup IndicesOf(swing_lows') \subseteq 0..(n - 1)
            /\ AscendingIndex(swing_highs')
            /\ AscendingIndex(swing_lows')
            /\ \A k \in 1..Len(swing_highs') :
                  swing_highs'[k].price = highs[swing_highs'[k].index]
            /\ \A k \in 1..Len(swing_lows') :
                  swing_lows'[k].price = lows[swing_lows'[k].index]

C18_SwingPoints == [][SwingStep]_vars

\* the swing stage has run on a frame where the first bar of the range is
\* both a swing high and a swing low, and another bar is a swing high only
C18_Witness ==
    /\ pc = "AssembleContractions"
    /\ SwingWindow \in IndicesOf(swing_highs) \cap IndicesOf(swing_lows)
    /\ IndicesOf(swing_highs) \ IndicesOf(swing_lows) # {}
    /\ Len(swing_highs) > 2

\* C19: when several bars of one window of 2w+1 bars tie for the maximum
\* high, or for the minimum low, only the earliest of them is recorded: no
\* recorded swing point has an earlier bar of its window at the same price.
EarlierTie(series, i, w) ==
    \E j \in (i - w)..(i - 1) : series[j] = series[i]

C19_TiesResolveEarliest ==
    pc = "AssembleContractions" =>
        /\ \A i \in IndicesOf(swing_highs) :
              ~EarlierTie(df.col["High"], i, SwingWindow)
        /\ \A i \in IndicesOf(swing_lows) :
              ~EarlierTie(df.col["Low"], i, SwingWindow)

\* C20: when the recent window, the last min(60, n div 2) bars, holds at
\* least two swing highs and two swing lows, every swing high of the window
\* with a swing low of the window strictly after its date starts exactly one
\* of the contractions; with fewer than two of either kind there are none.
RecentOf(frame, points) ==
    LET half == frame.n \div 2
        recent_period == IF RecentPeriod <= half THEN RecentPeriod ELSE half
    IN  {points[k] : k \in {j \in 1..Len(points) :
                               points[j].index >= frame.n - recent_period}}

StartingAt(cs, h) == {k \in 1..Len(cs) : cs[k].start_date = h.date}

AssembleStep ==
    pc = "AssembleContractions" =>
        LET recent_highs == RecentOf(df, swing_highs)
            recent_lows == RecentOf(df, swing_lows)
        IN  IF Cardinality(recent_highs) >= 2 /\ Cardinality(recent_lows) >= 2
            THEN \A h \in recent_highs :
                    (\E l \in recent_lows : l.date > h.date) =>
                        Cardinality(StartingAt(contractions', h)) = 1
            ELSE contractions' = <<>>

C20_EveryHighWithLaterLow == [][AssembleStep]_vars

\* C21: every contraction starts at a recent swing high H and ends at the
\* recent swing low L that is strictly after H, has the least price of the
\* lows after H and is the earliest of those of that price; its percent_drop
\* is (H.price - L.price) / H.price and its avg_volume is the mean of the
\* volume over the bars H.index .. L.index.
PairedLow(lows, h) ==
    CHOOSE l \in lows :
        /\ l.date > h.date
        /\ \A m \in lows :
              m.date > h.date =>
                  \/ m.price > l.price
                  \/ m.price = l.price /\ m.date >= l.date

PairingStep ==
    pc = "AssembleContractions" =>
        LET recent_highs == RecentOf(df, swing_highs)
            recent_lows == RecentOf(df, swing_lows)
        IN  \A k \in 1..Len(contractions') :
                LET c == contractions'[k]
                IN  \E h \in recent_highs :
                       /\ c.start_date = h.date
                       /\ c.high_price = h.price
                       /\ \E l \in recent_lows : l.date > h.date
                       /\ LET l == PairedLow(recent_lows, h)
                          IN  /\ c.end_date = l.date
                              /\ c.low_price = l.price
                              /\ c.percent_drop[2] = h.price
                              /\ c.percent_drop[1] = h.price - l.price
                              /\ c.avg_volume[2] = l.index - h.index + 1
                              /\ c.avg_volume[1] =
                                    SumRange(df.col["Volume"], h.index, l.index)

C21_PairedWithLowestLow == [][PairingStep]_vars

\* the contractions are assembled, and one of them starts at a high that has
\* two later lows at the least price: it ends at the earlier of the two
C21_Witness ==
    /\ pc = "ValidatePattern"
    /\ \E k \in 1..Len(contractions) :
          \E l1, l2 \in RecentOf(df, swing_lows) :
              /\ l1.date > contractions[k].start_date
              /\ l2.date > l1.date
              /\ l1.price = l2.price
              /\ l1.price = contractions[k].low_price
              /\ contractions[k].end_date = l1.date

\* C22: a pattern validation that does not raise tests the decreasing
\* magnitude first, then the final tightness, then the base depth; when it
\* rejects it appends exactly one note, that of the first test that fails,
\* and when no test fails it accepts.
FailingChecks(cfg, kept) ==
    LET drops == [i \in 1..Len(kept) |-> kept[i].percent_drop]
        decreasing == {i \in 2..Len(kept) : Le(drops[i], drops[i - 1])}
        top == CHOOSE h \in {kept[i].high_price : i \in 1..Len(kept)} :
                   \A i \in 1..Len(kept) : kept[i].high_price <= h
        bottom == CHOOSE l \in {kept[i].low_price : i \in 1..Len(kept)} :
                      \A i \in 1..Len(kept) : kept[i].low_price >= l
    IN  << 10 * Cardinality(decreasing) < 6 * (Len(kept) - 1),
           Gt(drops[Len(kept)], <<cfg.final_contraction_max, 100>>),
           Gt(<<top - bottom, top>>, <<cfg.max_base_depth, 100>>) >>

CheckNotes ==
    << "Contractions not sufficiently decreasing",
       "Final contraction too wide",
       "Base too deep" >>

PatternVerdictStep ==
    pc = "ValidatePattern" /\ internal_error' = "" =>
        LET kept == KeepRecent(contractions, self.max_contractions)
            failing == FailingChecks(self, kept)
            before == signal.notes
            after == signal'.notes
        IN  IF \E k \in 1..3 : failing[k]
            THEN LET first == CHOOSE k \in 1..3 :
                                 failing[k] /\ \A j \in 1..(k - 1) : ~failing[j]
                 IN  /\ pc' = "Emit"
                     /\ Len(after) = Len(before) + 1
                     /\ SubSeq(after, 1, Len(before)) = before
                     /\ after[Len(after)].text = CheckNotes[first]
            ELSE /\ pc' = "ComputeMetrics"
                 /\ \A k \in 1..3 : ~HasNote(signal', CheckNotes[k])

C22_FirstFailingCheckNoted == [][PatternVerdictStep]_vars

\* a validation has rejected for the final tightness a pattern whose base is
\* also too deep
C22_Witness ==
    /\ pc = "Emit"
    /\ Len(contractions) >= self.min_contractions
    /\ LET failing == FailingChecks(self, KeepRecent(contractions, self.max_contractions))
       IN  ~failing[1] /\ failing[2] /\ failing[3]
    /\ signal.notes # <<>>
    /\ signal.notes[Len(signal.notes)].text = "Final contraction too wide"

\* C23: the verdict of a pattern validation is the same whatever the
\* avg_volume of the contractions; the note "Volume not decreasing through
\* pattern" is appended exactly when the pattern is accepted, three or more
\* contractions are kept and the least-squares slope of avg_volume against
\* the index is positive.
\* the sign of the slope is that of the sum over i < j of (j - i)(v[j] - v[i])
RECURSIVE PairSum(_, _, _)
PairSum(v, i, j) ==
    IF i >= Len(v) THEN Num(0)
    ELSE IF j > Len(v) THEN PairSum(v, i + 1, i + 2)
    ELSE Plus(Plus(<<(j - i) * v[j][1], v[j][2]>>, <<(i - j) * v[i][1], v[i][2]>>),
              PairSum(v, i, j + 1))

SlopePositive(kept) ==
    Gt(PairSum([i \in 1..Len(kept) |-> kept[i].avg_volume], 1, 2), Num(0))

\* the contractions with other volumes: all equal, rising, falling
OtherVolumes(cs) ==
    { [i \in 1..Len(cs) |-> [cs[i] EXCEPT !.avg_volume = Num(7)]],
      [i \in 1..Len(cs) |-> [cs[i] EXCEPT !.avg_volume = Num(i)]],
      [i \in 1..Len(cs) |-> [cs[i] EXCEPT !.avg_volume = <<100 - i, 3>>]] }

VolumeStep ==
    pc = "ValidatePattern" /\ internal_error' = "" =>
        LET kept == KeepRecent(contractions, self.max_contractions)
            accepted == pc' = "ComputeMetrics"
        IN  /\ \A other \in OtherVolumes(contractions) :
                  validate_vcp_pattern(self, other, signal).ok = accepted
            /\ HasNote(signal', "Volume not decreasing through pattern") <=>
                  accepted /\ Len(kept) >= 3 /\ SlopePositive(kept)

C23_VolumeOnlyNoted == [][VolumeStep]_vars

\* a pattern of three or more contractions with rising volume was accepted
\* and carries the note
C23_Witness ==
    /\ pc = "ComputeMetrics"
    /\ Len(KeepRecent(contractions, self.max_contractions)) >= 3
    /\ SlopePositive(KeepRecent(contractions, self.max_contractions))
    /\ HasNote(signal, "Volume not decreasing through pattern")

\* C24: the trend_strength of a detected Signal is 0.3 [close > MA20]
\* + 0.3 [close > MA50] + 0.2 [close > the close 10 bars before the last bar]
\* + 0.2 [mean of the last 10 volumes > mean of the 20 volumes before them],
\* at most 1.
StrengthTenths(frame, back) ==
    LET n == frame.n
        close == frame.col["Close"]
        volume == frame.col["Volume"]
        last == close[n - 1]
    IN  (IF 20 * last > SumRange(close, n - 20, n - 1) THEN 3 ELSE 0)
        + (IF 50 * last > SumRange(close, n - 50, n - 1) THEN 3 ELSE 0)
        + (IF last > close[n - 1 - back] THEN 2 ELSE 0)
        + (IF 20 * SumRange(volume, n - 10, n - 1)
                > 10 * SumRange(volume, n - 30, n - 11) THEN 2 ELSE 0)

C24_TrendStrength ==
    \A i \in 1..Len(returned) :
        returned[i].detected =>
            LET tenths == StrengthTenths(df, 10)
            IN  /\ tenths <= 10
                /\ Ge(returned[i].trend_strength, <<tenths, 10>>)
                /\ Le(returned[i].trend_strength, <<tenths, 10>>)

\* C25: the confidence score of a detected Signal is trend_strength * 30
\* + (20 for 3 or 4 contractions, else 10 for 2 to 5, else 0)
\* + (20 when the volume dries up) + 15 + the tightness points, kept within
\* 0 .. 100; the tightness points are 15 for a final tightness <= 0.05, a
\* tightness of exactly 0 included, 10 for <= 0.08, 5 for <= 0.10, else 0.
SpecTightnessPoints(tightness) ==
    IF Le(tightness, <<5, 100>>) THEN 15
    ELSE IF Le(tightness, <<8, 100>>) THEN 10
    ELSE IF Le(tightness, <<10, 100>>) THEN 5
    ELSE 0

SpecScore(sig) ==
    LET count == Len(sig.contractions[1])
        points == (IF 3 <= count /\ count <= 4 THEN 20
                   ELSE IF 2 <= count /\ count <= 5 THEN 10 ELSE 0)
                  + (IF sig.volume_dry_up THEN 20 ELSE 0)
                  + 15
                  + SpecTightnessPoints(sig.final_contraction_tightness[1])
        sum == <<sig.trend_strength[1] * 30 + points * sig.trend_strength[2],
                 sig.trend_strength[2]>>
    IN  IF Lt(sum, Num(0)) THEN Num(0)
        ELSE IF Gt(sum, Num(100)) THEN Num(100)
        ELSE sum

C25_ConfidenceScore ==
    \A i \in 1..Len(returned) :
        returned[i].detected =>
            /\ Ge(returned[i].confidence_score, SpecScore(returned[i]))
            /\ Le(returned[i].confidence_score, SpecScore(returned[i]))

\* C26: for a detected Signal, pivot_price is 1.01 times the greatest
\* high_price of the contractions, and breakout_detected is true exactly when
\* the last close is greater than pivot_price and the last bar's volume is
\* greater than breakout_volume_multiplier times the mean volume of the last
\* 50 bars, the last bar included.
PriceAbovePivot(frame, cs) ==
    \A k \in 1..Len(cs) : 100 * frame.col["Close"][frame.n - 1] > 101 * cs[k].high_price

\* the multiplier is kept in tenths
VolumeSurge(cfg, frame) ==
    LET volume == frame.col["Volume"]
        n == frame.n
    IN  10 * 50 * volume[n - 1]
            > cfg.breakout_volume_multiplier * SumRange(volume, n - 50, n - 1)

C26_BreakoutIff ==
    \A i \in 1..Len(returned) :
        returned[i].detected =>
            LET cs == returned[i].contractions[1]
                pivot == returned[i].pivot_price[1]
            IN  /\ \E k \in 1..Len(cs) :
                      pivot[1] * 100 = 101 * cs[k].high_price * pivot[2]
                /\ \A k \in 1..Len(cs) :
                      pivot[1] * 100 >= 101 * cs[k].high_price * pivot[2]
                /\ returned[i].breakout_detected <=>
                      PriceAbovePivot(df, cs) /\ VolumeSurge(self, df)

\* a detected Signal with a breakout
C26_Witness ==
    /\ Len(returned) = 1
    /\ returned[1].detected
    /\ returned[1].breakout_detected
    /\ PriceAbovePivot(df, returned[1].contractions[1])
    /\ VolumeSurge(self, df)

\* C27: every divisor is guarded: a detected Signal never comes from a frame
\* in which a contraction's swing-high price is 0, the avg_volume of the
\* contraction before the last is 0, or the close 126 bars back is 0, and
\* none of its contractions has an undefined percent_drop.
C27_DivisorsGuarded ==
    \A i \in 1..Len(returned) :
        returned[i].detected =>
            LET cs == returned[i].contractions[1]
            IN  /\ \A k \in 1..Len(cs) :
                      /\ cs[k].high_price # 0
                      /\ cs[k].percent_drop[2] # 0
                /\ Len(cs) >= 2 => cs[Len(cs) - 1].avg_volume[1] # 0
                /\ self.check_trend_template /\ df.n >= 126 =>
                      df.col["Close"][df.n - 126] # 0

\* C28: in the batch worker, a ticker for which detect_vcp returns a detected
\* Signal gets exactly one record, with pattern "VCP", the Signal's
\* confidence_score, pivot_price and number of contractions, and main upserts
\* it; run_one returns no record only when the fetch fails, the frame is too
\* short or nothing is detected.
C28_DetectedIsRecorded ==
    \A k \in 1..Len(batch.rows) :
        LET rows == batch.rows[k]
            sg == batch.signals[k]
            o == batch.outcomes[k]
        IN  /\ (sg # NoValue /\ sg[1].detected) =>
                  /\ Len(rows) = 1
                  /\ rows[1].ticker = batch.tickers[k]
                  /\ rows[1].pattern = "VCP"
                  /\ rows[1].confidence = sg[1].confidence_score
                  /\ rows[1].price = sg[1].pivot_price
                  /\ rows[1].meta.contractions = Len(sg[1].contractions[1])
                  /\ rows[1] \in patterns
            /\ rows = <<>> =>
                  \/ o.what = "None"
                  \/ MakeFrame(o.shape).n < 50
                  \/ sg # NoValue /\ ~sg[1].detected

\* C29: with check_trend_template true, a call on a frame of fewer than 200
\* bars never gets past the trend gate: criteria 1 to 4 compare against the
\* undefined MA200 and fail, so at most 4 of the 8 criteria pass, no swing
\* point is extracted and the Signal returned is not detected.
C29_ShortFrameRejected ==
    (self.check_trend_template /\ ~df0.none /\ df0.n < 200) =>
        /\ ~PastTrendGate
        /\ swing_highs = <<>> /\ swing_lows = <<>> /\ contractions = <<>>
        /\ TrendRejected =>
              /\ PassedCriteria <= 4
              /\ \A i \in 1..4 : ~TrendCriteria(df)[i]
        /\ \A i \in 1..Len(returned) : ~returned[i].detected

\* a frame of 199 bars, one short of MA200, that passes criteria 5 to 8 and is
\* returned as rejected by the trend template
C29_Witness ==
    /\ Ended
    /\ self.check_trend_template
    /\ df0.n = 199
    /\ PassedCriteria = 4
    /\ Len(returned) = 1
    /\ ~returned[1].detected
    /\ HasNote(returned[1], "Trend Template: k/8 criteria passed")

\* the items of the pages of the walk, in the order received
RECURSIVE Concat(_)
Concat(pages) ==
    IF pages = <<>> THEN <<>> ELSE Head(pages) \o Concat(Tail(pages))

Walked == Concat(walk.pages)

\* C30: with no concurrent writes, a walk from cursor None along the returned
\* cursors until next is None returns every row of the patterns table exactly
\* once, in (as_of DESC, ticker ASC) order, for every limit >= 1, rows that
\* share (as_of, ticker) and differ in pattern included.
C30_WalkReturnsEveryRowOnce ==
    walk.pc = "done" =>
        /\ \A r \in patterns :
              Cardinality({i \in DOMAIN Walked : Walked[i] = PatternItem(r)}) = 1
        /\ Len(Walked) = Cardinality(patterns)
        /\ \A i \in DOMAIN Walked :
              i < Len(Walked) =>
                 \/ fromisoformat(Walked[i].as_of) > fromisoformat(Walked[i + 1].as_of)
                 \/ /\ Walked[i].as_of = Walked[i + 1].as_of
                    /\ TickerRank(Walked[i].ticker) <= TickerRank(Walked[i + 1].ticker)

\* C30, its last part: the walk ends after finitely many calls
C30_WalkEnds == (walk.pc = "paging") ~> (walk.pc = "done")

====
